---- MODULE Spec2Model ----
(***************************************************************************)
(* A model of cdecl, the C gibberish translator: the type-identifier bit   *)
(* sectors (c_type.h), type accumulation (c_type_add), the AST builder     *)
(* (c_ast_util.h), the gibberish printer (gibberish.c), the English        *)
(* printer (english.c) and di/trigraph token substitution (graph_token_c). *)
(***************************************************************************)
EXTENDS Integers, Sequences, FiniteSets, TLC

(***************************************************************************)
(* 64-bit type identifiers.  A c_type_id_t value is modelled as the set of *)
(* its set bit positions (0..63); the constants are transcribed as the 16  *)
(* hexadecimal digits of c_type.h.                                         *)
(***************************************************************************)
HexDigit(c) ==
  CASE c = "0" -> 0  [] c = "1" -> 1  [] c = "2" -> 2  [] c = "3" -> 3
    [] c = "4" -> 4  [] c = "5" -> 5  [] c = "6" -> 6  [] c = "7" -> 7
    [] c = "8" -> 8  [] c = "9" -> 9  [] c = "A" -> 10 [] c = "B" -> 11
    [] c = "C" -> 12 [] c = "D" -> 13 [] c = "E" -> 14 [] c = "F" -> 15

Hex64(s) ==
  { 4 * (16 - i) + b : <<i, b>> \in
      { p \in (1..16) \X (0..3) :
          (HexDigit(SubSeq(s, p[1], p[1])) \div (2 ^ p[2])) % 2 = 1 } }

T_NONE               == Hex64("0000000000000000")
\* types
T_VOID               == Hex64("0000000000000001")
T_AUTO_TYPE          == Hex64("0000000000000002")
T_BOOL               == Hex64("0000000000000004")
T_CHAR               == Hex64("0000000000000008")
T_CHAR8_T            == Hex64("0000000000000010")
T_CHAR16_T           == Hex64("0000000000000020")
T_CHAR32_T           == Hex64("0000000000000040")
T_WCHAR_T            == Hex64("0000000000000080")
T_SHORT              == Hex64("0000000000000100")
T_INT                == Hex64("0000000000000200")
T_LONG               == Hex64("0000000000000400")
T_LONG_LONG          == Hex64("0000000000000800")
T_SIGNED             == Hex64("0000000000001000")
T_UNSIGNED           == Hex64("0000000000002000")
T_FLOAT              == Hex64("0000000000004000")
T_DOUBLE             == Hex64("0000000000008000")
T_COMPLEX            == Hex64("0000000000010000")
T_IMAGINARY          == Hex64("0000000000020000")
T_ENUM               == Hex64("0000000000040000")
T_STRUCT             == Hex64("0000000000080000")
T_UNION              == Hex64("0000000000100000")
T_CLASS              == Hex64("0000000000200000")
T_NAMESPACE          == Hex64("0000000000400000")
T_SCOPE              == Hex64("0000000000800000")
T_TYPEDEF_TYPE       == Hex64("0000000001000000")
\* storage classes
T_AUTO_STORAGE       == Hex64("0000000010000000")
T_APPLE_BLOCK        == Hex64("0000000020000000")
T_EXTERN             == Hex64("0000000040000000")
T_MUTABLE            == Hex64("0000000080000000")
T_REGISTER           == Hex64("0000000100000000")
T_STATIC             == Hex64("0000000200000000")
T_THREAD_LOCAL       == Hex64("0000000400000000")
T_TYPEDEF            == Hex64("0000000800000000")
\* storage-class-like
T_CONSTEVAL          == Hex64("0000001000000000")
T_CONSTEXPR          == Hex64("0000002000000000")
T_DEFAULT            == Hex64("0000004000000000")
T_DELETE             == Hex64("0000008000000000")
T_EXPLICIT           == Hex64("0000010000000000")
T_FINAL              == Hex64("0000020000000000")
T_FRIEND             == Hex64("0000040000000000")
T_INLINE             == Hex64("0000080000000000")
T_NOEXCEPT           == Hex64("0000100000000000")
T_OVERRIDE           == Hex64("0000200000000000")
T_PURE_VIRTUAL       == Hex64("0000400000000000")
T_THROW              == Hex64("0000800000000000")
T_VIRTUAL            == Hex64("0001000000000000")
\* attributes
T_CARRIES_DEPENDENCY == Hex64("0002000000000000")
T_DEPRECATED         == Hex64("0004000000000000")
T_MAYBE_UNUSED       == Hex64("0008000000000000")
T_NODISCARD          == Hex64("0010000000000000")
T_NORETURN           == Hex64("0020000000000000")
\* qualifiers
T_ATOMIC             == Hex64("0100000000000000")
T_CONST              == Hex64("0200000000000000")
T_RESTRICT           == Hex64("0400000000000000")
\* T_VOLATILE with the value of T_RESTRICT (used to test the claims).
T_VOLATILE_dup       == Hex64("0400000000000000")
T_VOLATILE           == Hex64("0800000000000000")
\* ref-qualifiers
T_REFERENCE          == Hex64("1000000000000000")
T_RVALUE_REFERENCE   == Hex64("2000000000000000")
\* bit masks
T_MASK_TYPE          == Hex64("000000000FFFFFFF")
\* A storage mask one bit too wide (used to test the claims).
T_MASK_STORAGE_wide   == Hex64("0003FFFFF0000000")
T_MASK_STORAGE       == Hex64("0001FFFFF0000000")
T_MASK_ATTRIBUTE     == Hex64("003E000000000000")
T_MASK_QUALIFIER     == Hex64("0F00000000000000")
T_MASK_REF_QUALIFIER == Hex64("F000000000000000")

\* The constants of each section of c_type.h, in the order of the file.
BaseTypeIds ==
  << T_VOID, T_AUTO_TYPE, T_BOOL, T_CHAR, T_CHAR8_T, T_CHAR16_T, T_CHAR32_T,
     T_WCHAR_T, T_SHORT, T_INT, T_LONG, T_LONG_LONG, T_SIGNED, T_UNSIGNED,
     T_FLOAT, T_DOUBLE, T_COMPLEX, T_IMAGINARY, T_ENUM, T_STRUCT, T_UNION,
     T_CLASS, T_NAMESPACE, T_SCOPE, T_TYPEDEF_TYPE >>

StorageClassIds ==
  << T_AUTO_STORAGE, T_APPLE_BLOCK, T_EXTERN, T_MUTABLE, T_REGISTER, T_STATIC,
     T_THREAD_LOCAL, T_TYPEDEF >>

StorageLikeIds ==
  << T_CONSTEVAL, T_CONSTEXPR, T_DEFAULT, T_DELETE, T_EXPLICIT, T_FINAL,
     T_FRIEND, T_INLINE, T_NOEXCEPT, T_OVERRIDE, T_PURE_VIRTUAL, T_THROW,
     T_VIRTUAL >>

AttributeIds ==
  << T_CARRIES_DEPENDENCY, T_DEPRECATED, T_MAYBE_UNUSED, T_NODISCARD,
     T_NORETURN >>

QualifierIds == << T_ATOMIC, T_CONST, T_RESTRICT, T_VOLATILE >>

RefQualifierIds == << T_REFERENCE, T_RVALUE_REFERENCE >>

\* Every named constant, paired with the sector mask of its own section.
\* <<constant, mask>> in file order.
MaskOfSection(k) ==
  CASE k = 1 -> T_MASK_TYPE
    [] k = 2 -> T_MASK_STORAGE
    [] k = 3 -> T_MASK_STORAGE
    [] k = 4 -> T_MASK_ATTRIBUTE
    [] k = 5 -> T_MASK_QUALIFIER
    [] k = 6 -> T_MASK_REF_QUALIFIER

Sections ==
  << BaseTypeIds, StorageClassIds, StorageLikeIds, AttributeIds, QualifierIds,
     RefQualifierIds >>

SectorMasks ==
  << T_MASK_TYPE, T_MASK_STORAGE, T_MASK_ATTRIBUTE, T_MASK_QUALIFIER,
     T_MASK_REF_QUALIFIER >>

\* Index pairs <<section, position>> of all named constants.
TypeConstIdx ==
  { p \in (1..6) \X (1..25) : p[2] <= Len(Sections[p[1]]) }

TypeConst(p) == Sections[p[1]][p[2]]

AllTypeIds == { TypeConst(p) : p \in TypeConstIdx }


(***************************************************************************)
(* Languages.  c_lang_id_t values are ordered: every C dialect is less     *)
(* than every C++ dialect, and within each family older is less.           *)
(***************************************************************************)
LANG_C_KNR  == 1
LANG_C_89   == 2
LANG_C_95   == 3
LANG_C_99   == 4
LANG_C_11   == 5
LANG_C_17   == 6
LANG_C_2X   == 7
LANG_CPP_98 == 8
LANG_CPP_03 == 9
LANG_CPP_11 == 10
LANG_CPP_14 == 11
LANG_CPP_17 == 12
LANG_CPP_20 == 13
LANG_CPP_23 == 14

\* The language c++decl starts in.
LANG_CPP_NEW == LANG_CPP_23

AllLangs == LANG_C_KNR .. LANG_CPP_23

\* Di/trigraph modes (c_graph_t).
C_GRAPH_NONE == "C_GRAPH_NONE"
C_GRAPH_DI   == "C_GRAPH_DI"
C_GRAPH_TRI  == "C_GRAPH_TRI"

AllGraphs == { C_GRAPH_NONE, C_GRAPH_DI, C_GRAPH_TRI }

(***************************************************************************)
(* The state.                                                              *)
(*   dest_type, new_type, add_ret : the destination, argument and result   *)
(*       of the last c_type_add call;                                      *)
(*   opt_*      : the option variables of options.h;                       *)
(*   ast, root  : the AST arena (node id -> node) and the root node id of  *)
(*       the declaration being built (0 = none);                           *)
(*   gib_flags  : the c_gib_flags_t flags given to c_ast_gibberish;        *)
(*   gout       : what the last print wrote (a sequence of tokens);        *)
(*   gfailed    : whether the last print hit an assertion;                 *)
(*   eout       : what c_ast_english wrote last (a string);                *)
(*   token, graph_ret : the argument and result of the last graph_token_c  *)
(*   pc         : position of the session ("build", "printed", ...).       *)
(***************************************************************************)
VARIABLES dest_type, new_type, add_ret,
          opt_lang, opt_alt_tokens, opt_east_const, opt_graph, opt_semicolon,
          ast, root, gib_flags, gout, gfailed, eout,
          token, graph_ret, pc, tdef_lang_ids,
          source, target, edit_dist,
          kind_hdr, kind_id, kind_ids, kind_ret,
          argc, argv, opts_given, exit_status,
          prompt_enabled, set_opt, set_out,
          main_me, main_argv, main_tty, main_i, main_ok, stdin_caller,
          stdin_ok, stdin_lines, touched, main_status,
          gen_src, gen_text, text_len, match_command, match_index, gen_rets,
          gen_calls,
          free_head, freed, since, free_last

typeVars == << dest_type, new_type, add_ret >>

optVars == << opt_lang, opt_alt_tokens, opt_east_const, opt_graph,
              opt_semicolon >>

astVars == << ast, root >>

printVars == << gib_flags, gout, gfailed, eout >>

graphVars == << token, graph_ret >>

tdefVars == << tdef_lang_ids >>

distVars == << source, target, edit_dist >>

kindVars == << kind_hdr, kind_id, kind_ids, kind_ret >>

cliVars == << argc, argv, opts_given, exit_status >>

setVars == << prompt_enabled, set_opt, set_out >>

mainVars == << main_me, main_argv, main_tty, main_i, main_ok, stdin_caller,
               stdin_ok, stdin_lines, touched, main_status >>

genVars == << gen_src, gen_text, text_len, match_command, match_index,
             gen_rets, gen_calls >>

freeVars == << free_head, freed, since, free_last >>

sessVars == << setVars, mainVars, genVars, freeVars >>

\* The variables the printers and the builder leave alone.
auxVars == << cliVars, kindVars, distVars, tdefVars, sessVars >>

vars == << dest_type, new_type, add_ret,
           opt_lang, opt_alt_tokens, opt_east_const, opt_graph, opt_semicolon,
           ast, root, gib_flags, gout, gfailed, eout, token, graph_ret,
           pc, tdef_lang_ids, source, target, edit_dist,
           kind_hdr, kind_id, kind_ids, kind_ret,
           argc, argv, opts_given, exit_status,
           prompt_enabled, set_opt, set_out,
           main_me, main_argv, main_tty, main_i, main_ok, stdin_caller,
           stdin_ok, stdin_lines, touched, main_status,
           gen_src, gen_text, text_len, match_command, match_index,
           gen_rets, gen_calls,
           free_head, freed, since, free_last >>

(***************************************************************************)
(* graph_token_c (gibberish.c).  A token is a string; Ch(token, i) is      *)
(* token[i-1] of the C code, "" standing for the terminating NUL.          *)
(***************************************************************************)
Ch(tok, i) == IF i <= Len(tok) THEN SubSeq(tok, i, i) ELSE ""

DigraphOf(tok) ==
  CASE Ch(tok, 1) = "#" -> IF Ch(tok, 2) = "#" THEN "%:%:" ELSE "%:"
    [] Ch(tok, 1) = "[" -> IF Ch(tok, 2) = "[" THEN "<:<:" ELSE "<:"
    [] Ch(tok, 1) = "]" -> IF Ch(tok, 2) = "]" THEN ":>:>" ELSE ":>"
    [] Ch(tok, 1) = "{" -> "<%"
    [] Ch(tok, 1) = "}" -> "%>"
    [] OTHER -> tok

TrigraphOf(tok) ==
  CASE Ch(tok, 1) = "#" -> "??="
    [] Ch(tok, 1) = "[" -> IF Ch(tok, 2) = "[" THEN "??(??(" ELSE "??("
    [] Ch(tok, 1) = "]" -> IF Ch(tok, 2) = "]" THEN "??)??)" ELSE "??)"
    [] Ch(tok, 1) = "\\" -> "??/"
    [] Ch(tok, 1) = "^" -> IF Ch(tok, 2) = "=" THEN "??'=" ELSE "??'"
    [] Ch(tok, 1) = "{" -> "??<"
    [] Ch(tok, 1) = "}" -> "??>"
    [] Ch(tok, 1) = "|" -> IF Ch(tok, 2) = "=" THEN "??!="
                           ELSE IF Ch(tok, 2) = "|" THEN "??!??!" ELSE "??!"
    [] Ch(tok, 1) = "~" -> "??-"
    [] OTHER -> tok

DigraphLang(lang) == lang >= LANG_C_95

\* Trigraphs without their end in C++17 (used to test the claims).
TrigraphLang_open(lang) == lang >= LANG_C_89

TrigraphLang(lang) == lang >= LANG_C_89 /\ lang <= LANG_CPP_14

graph_token_c(tok) ==
  IF ~opt_alt_tokens
    THEN CASE opt_graph = C_GRAPH_NONE -> tok
           [] opt_graph = C_GRAPH_DI ->
                IF DigraphLang(opt_lang) THEN DigraphOf(tok) ELSE tok
           [] opt_graph = C_GRAPH_TRI ->
                IF TrigraphLang(opt_lang) THEN TrigraphOf(tok) ELSE tok
    ELSE tok


(***************************************************************************)
(* Types of AST nodes as gibberish.c sees them: a c_type_t is a record of  *)
(* three sets of type ids: base (btids), storage/qualifier (stids) and     *)
(* attribute (atids).                                                      *)
(***************************************************************************)
TB_ANY == { "TB_VOID", "TB_CHAR", "TB_INT", "TB_ENUM", "TB_STRUCT",
            "TB_UNION", "TB_CLASS", "TB_TYPEDEF" }

TS_ANY_STORAGE == { "TS_EXTERN", "TS_STATIC", "TS_TYPEDEF" }

TS_ANY_STORAGE_LIKE ==
  { "TS_DEFAULT", "TS_DELETE", "TS_FINAL", "TS_INLINE", "TS_NOEXCEPT",
    "TS_OVERRIDE", "TS_PURE_VIRTUAL", "TS_THROW", "TS_VIRTUAL" }

TS_MASK_STORAGE == TS_ANY_STORAGE \cup TS_ANY_STORAGE_LIKE

TS_MASK_QUALIFIER == { "TS_ATOMIC", "TS_CONST", "TS_RESTRICT", "TS_VOLATILE" }

TS_CV == { "TS_CONST", "TS_VOLATILE" }

TS_MASK_REF_QUALIFIER == { "TS_REFERENCE", "TS_RVALUE_REFERENCE" }

TA_ANY_MSC_CALL == { "TA_MSC_CDECL", "TA_MSC_STDCALL" }

TA_ANY == { "TA_NODISCARD" } \cup TA_ANY_MSC_CALL

TNONE == {}

C_TYPE_LIT(b, s, a) == [btids |-> b, stids |-> s, atids |-> a]

C_TYPE_NONE == C_TYPE_LIT(TNONE, TNONE, TNONE)

c_type_is_none(type) ==
  type.btids = TNONE /\ type.stids = TNONE /\ type.atids = TNONE

\* The C/C++ spelling of one type id.
TidName(t) ==
  CASE t = "TB_VOID" -> "void"         [] t = "TB_CHAR" -> "char"
    [] t = "TB_INT" -> "int"           [] t = "TB_ENUM" -> "enum"
    [] t = "TB_STRUCT" -> "struct"     [] t = "TB_UNION" -> "union"
    [] t = "TB_CLASS" -> "class"       [] t = "TB_NAMESPACE" -> "namespace"
    [] t = "TS_EXTERN" -> "extern"     [] t = "TS_STATIC" -> "static"
    [] t = "TS_TYPEDEF" -> "typedef"   [] t = "TS_DEFAULT" -> "default"
    [] t = "TS_DELETE" -> "delete"     [] t = "TS_FINAL" -> "final"
    [] t = "TS_INLINE" -> "inline"     [] t = "TS_NOEXCEPT" -> "noexcept"
    [] t = "TS_OVERRIDE" -> "override" [] t = "TS_PURE_VIRTUAL" -> "= 0"
    [] t = "TS_THROW" -> "throw()"     [] t = "TS_VIRTUAL" -> "virtual"
    [] t = "TS_ATOMIC" -> "_Atomic"    [] t = "TS_CONST" -> "const"
    [] t = "TS_RESTRICT" -> "restrict" [] t = "TS_VOLATILE" -> "volatile"
    [] t = "TS_REFERENCE" -> "&"       [] t = "TS_RVALUE_REFERENCE" -> "&&"
    [] t = "TA_NODISCARD" -> "[[nodiscard]]"
    [] t = "TA_MSC_CDECL" -> "__cdecl" [] t = "TA_MSC_STDCALL" -> "__stdcall"

\* The order in which a type's ids are spelled.
AttrOrder == << "TA_NODISCARD", "TA_MSC_CDECL", "TA_MSC_STDCALL" >>

StorageOrder ==
  << "TS_EXTERN", "TS_STATIC", "TS_TYPEDEF", "TS_INLINE", "TS_VIRTUAL",
     "TS_DEFAULT", "TS_DELETE", "TS_FINAL", "TS_NOEXCEPT", "TS_OVERRIDE",
     "TS_PURE_VIRTUAL", "TS_THROW", "TS_REFERENCE", "TS_RVALUE_REFERENCE" >>

QualOrder == << "TS_ATOMIC", "TS_CONST", "TS_RESTRICT", "TS_VOLATILE" >>

\* TB_TYPEDEF has no spelling of its own: the typedef's name is printed by
\* the K_TYPEDEF case of g_print_ast.
BaseOrder == << "TB_VOID", "TB_CHAR", "TB_INT", "TB_ENUM", "TB_CLASS",
                "TB_STRUCT", "TB_UNION", "TB_NAMESPACE" >>

RECURSIVE NamesIn(_, _)
NamesIn(order, tids) ==
  IF order = << >> THEN << >>
  ELSE (IF Head(order) \in tids THEN << TidName(Head(order)) >> ELSE << >>)
         \o NamesIn(Tail(order), tids)

\* c_tid_name_c: the words of a set of type ids of one part.
c_tid_name_c(tids) ==
  NamesIn(AttrOrder, tids) \o NamesIn(StorageOrder, tids)
    \o NamesIn(QualOrder, tids) \o NamesIn(BaseOrder, tids)

\* c_type_name_c: the words of a whole type; the qualifiers go east of the
\* base type when opt_east_const is set, west of it otherwise.
c_type_name_c(type) ==
  NamesIn(AttrOrder, type.atids) \o NamesIn(StorageOrder, type.stids)
    \o (IF opt_east_const THEN << >> ELSE NamesIn(QualOrder, type.stids))
    \o NamesIn(BaseOrder, type.btids)
    \o (IF opt_east_const THEN NamesIn(QualOrder, type.stids) ELSE << >>)

c_type_name_ecsu(type) == c_type_name_c(type)

(***************************************************************************)
(* AST nodes.  The arena `ast` maps node ids 1..Len(ast) to nodes; 0 is    *)
(* the null pointer.  A scoped name is a sequence of identifiers.          *)
(***************************************************************************)
C_ARRAY_SIZE_NONE     == 0 - 1
C_ARRAY_SIZE_VARIABLE == 0 - 2

K_ANY_POINTER == { "K_POINTER", "K_POINTER_TO_MEMBER" }

K_ANY_REFERENCE == { "K_REFERENCE", "K_RVALUE_REFERENCE" }

K_ANY_FUNCTION_LIKE ==
  { "K_APPLE_BLOCK", "K_CONSTRUCTOR", "K_DESTRUCTOR", "K_FUNCTION",
    "K_OPERATOR", "K_USER_DEF_CONVERSION", "K_USER_DEF_LITERAL" }

K_ANY_PARENT ==
  K_ANY_FUNCTION_LIKE \cup K_ANY_POINTER \cup K_ANY_REFERENCE
    \cup { "K_ARRAY", "K_ENUM_CLASS_STRUCT_UNION" }

K_ANY_BIT_FIELD == { "K_BUILTIN", "K_ENUM_CLASS_STRUCT_UNION", "K_TYPEDEF" }

c_ast_new(kind, type, sname, of_ast) ==
  [ kind |-> kind, type |-> type, sname |-> sname, parent_ast |-> 0,
    of_ast |-> of_ast, param_ast_list |-> << >>,
    size |-> C_ARRAY_SIZE_NONE, array_stids |-> TNONE, bit_width |-> 0,
    class_sname |-> << >>, ecsu_sname |-> << >>, for_sname |-> << >>,
    oper_token |-> "", sname_types |-> << >> ]

RECURSIVE c_sname_full_name(_)
c_sname_full_name(sname) ==
  IF sname = << >> THEN ""
  ELSE IF Len(sname) = 1 THEN sname[1]
  ELSE sname[1] \o "::" \o c_sname_full_name(Tail(sname))

c_sname_local_name(sname) ==
  IF sname = << >> THEN "" ELSE sname[Len(sname)]

c_sname_scope_name(sname) ==
  IF Len(sname) < 2 THEN ""
  ELSE c_sname_full_name(SubSeq(sname, 1, Len(sname) - 1))

c_sname_count(sname) == Len(sname)

c_sname_empty(sname) == sname = << >>

c_ast_is_parent(a, n) == n # 0 /\ a[n].kind \in K_ANY_PARENT

c_ast_parent_is_kind(a, n, kind) ==
  a[n].parent_ast # 0 /\ a[a[n].parent_ast].kind = kind

\* c_ast_is_kind_any: is the node, or what it is a reference or rvalue
\* reference to, of one of the kinds.
c_ast_is_kind_any(a, n, kinds) ==
  LET m == IF a[n].kind \in K_ANY_REFERENCE /\ a[n].of_ast # 0
             THEN a[n].of_ast ELSE n
  IN  a[m].kind \in kinds

c_ast_is_ptr_to_kind(a, n, kind) ==
  /\ a[n].kind = "K_POINTER"
  /\ a[n].of_ast # 0
  /\ a[a[n].of_ast].kind = kind

\* c_ast_find_name(ast, C_VISIT_UP): the node's own name or that of its
\* nearest named ancestor; << >> stands for NULL.
RECURSIVE c_ast_find_name_up(_, _)
c_ast_find_name_up(a, n) ==
  IF n = 0 THEN << >>
  ELSE IF ~c_sname_empty(a[n].sname) THEN a[n].sname
  ELSE c_ast_find_name_up(a, a[n].parent_ast)

\* c_ast_find_kind_any(ast, C_VISIT_UP, kinds): 0 stands for NULL.
RECURSIVE c_ast_find_kind_any_up(_, _, _)
c_ast_find_kind_any_up(a, n, kinds) ==
  IF n = 0 THEN 0
  ELSE IF a[n].kind \in kinds THEN n
  ELSE c_ast_find_kind_any_up(a, a[n].parent_ast, kinds)


(***************************************************************************)
(* The gibberish printer (gibberish.c).  What is written to gout is a      *)
(* sequence of tokens [t, n, r]: the text t, the node n it was printed     *)
(* for and its role r; the printed text is the concatenation of the t's.   *)
(* A g_state is a record; `failed` records a failed assertion.             *)
(***************************************************************************)
Tok(t, n, r) == [t |-> t, n |-> n, r |-> r]

RECURSIVE WordToks(_, _, _)
WordToks(ws, n, r) ==
  IF ws = << >> THEN << >>
  ELSE IF Len(ws) = 1 THEN << Tok(ws[1], n, r) >>
  ELSE << Tok(ws[1], n, r), Tok(" ", n, "sp") >> \o WordToks(Tail(ws), n, r)

Put(g, toks) == [g EXCEPT !.out = @ \o toks]

PutStr(g, t, n, r) == IF t = "" THEN g ELSE Put(g, << Tok(t, n, r) >>)

g_init(flags, printing_typedef, out, failed) ==
  [ flags |-> flags, out |-> out, postfix |-> FALSE,
    printed_space |-> ("C_GIB_OMIT_TYPE" \in flags),
    printing_typedef |-> printing_typedef,
    skip_name_for_using |-> ("C_GIB_USING" \in flags),
    failed |-> failed ]

g_print_space_once(g, n) ==
  IF ~g.printed_space
    THEN Put([g EXCEPT !.printed_space = TRUE], << Tok(" ", n, "sp") >>)
    ELSE g

g_print_ast_name(g, a, n) ==
  IF g.skip_name_for_using
    THEN [g EXCEPT !.skip_name_for_using = FALSE, !.printed_space = TRUE]
    ELSE PutStr(g, IF "C_GIB_TYPEDEF" \in g.flags
                     THEN c_sname_local_name(a[n].sname)
                     ELSE c_sname_full_name(a[n].sname), n, "name")

IsAlpha(c) ==
  c \in { "a", "b", "c", "d", "e", "f", "g", "h", "i", "j", "k", "l", "m",
          "n", "o", "p", "q", "r", "s", "t", "u", "v", "w", "x", "y", "z" }

g_print_space_ast_name(g, a, n) ==
  LET node == a[n] IN
  IF "C_GIB_CAST" \in g.flags THEN g
  ELSE CASE node.kind = "K_CONSTRUCTOR" ->
              PutStr(g, c_sname_full_name(node.sname), n, "name")
         [] node.kind = "K_DESTRUCTOR" ->
              LET g1 == IF c_sname_count(node.sname) > 1
                          THEN Put(g, << Tok(c_sname_scope_name(node.sname),
                                             n, "scope"),
                                         Tok("::", n, "scope") >>)
                          ELSE g
                  g2 == IF opt_alt_tokens
                          THEN Put(g1, << Tok("compl", n, "op"),
                                          Tok(" ", n, "sp") >>)
                          ELSE Put(g1, << Tok("~", n, "op") >>)
              IN  PutStr(g2, c_sname_local_name(node.sname), n, "name")
         [] node.kind = "K_OPERATOR" ->
              LET g1 == g_print_space_once(g, n)
                  g2 == IF ~c_sname_empty(node.sname)
                          THEN Put(g1, << Tok(c_sname_full_name(node.sname),
                                              n, "scope"),
                                          Tok("::", n, "scope") >>)
                          ELSE g1
              IN  Put(g2, << Tok("operator", n, "name") >>
                            \o (IF IsAlpha(Ch(node.oper_token, 1))
                                  THEN << Tok(" ", n, "sp") >> ELSE << >>)
                            \o << Tok(node.oper_token, n, "name") >>)
         [] node.kind = "K_USER_DEF_CONVERSION" -> g
         [] node.kind = "K_USER_DEF_LITERAL" ->
              LET g1 == g_print_space_once(g, n)
                  g2 == IF c_sname_count(node.sname) > 1
                          THEN Put(g1, << Tok(c_sname_scope_name(node.sname),
                                              n, "scope"),
                                          Tok("::", n, "scope") >>)
                          ELSE g1
              IN  Put(g2, << Tok("operator\"\"", n, "name"),
                             Tok(" ", n, "sp"),
                             Tok(c_sname_local_name(node.sname), n, "name") >>)
         [] OTHER ->
              IF ~c_sname_empty(node.sname)
                THEN g_print_ast_name(
                       IF ~g.skip_name_for_using
                         THEN g_print_space_once(g, n) ELSE g, a, n)
                ELSE g

g_print_qual_name(g, a, n) ==
  LET node == a[n]
      qual_stid == node.type.stids \cap TS_MASK_QUALIFIER
      g1 ==
        CASE node.kind = "K_POINTER" ->
               Put(IF /\ qual_stid # TNONE
                      /\ "C_GIB_CAST" \notin g.flags
                      /\ ~c_ast_is_ptr_to_kind(a, n, "K_FUNCTION")
                     THEN g_print_space_once(g, n) ELSE g,
                   << Tok("*", n, "op") >>)
          [] node.kind = "K_POINTER_TO_MEMBER" ->
               Put(g, << Tok(c_sname_full_name(node.class_sname) \o "::*",
                             n, "op") >>)
          [] node.kind = "K_REFERENCE" ->
               IF opt_alt_tokens
                 THEN Put(g_print_space_once(g, n),
                          << Tok("bitand", n, "op"), Tok(" ", n, "sp") >>)
                 ELSE Put(g, << Tok("&", n, "op") >>)
          [] node.kind = "K_RVALUE_REFERENCE" ->
               IF opt_alt_tokens
                 THEN Put(g_print_space_once(g, n),
                          << Tok("and", n, "op"), Tok(" ", n, "sp") >>)
                 ELSE Put(g, << Tok("&&", n, "op") >>)
          [] OTHER -> g
      g2 ==
        IF qual_stid # TNONE
          THEN Put(g1, WordToks(c_tid_name_c(qual_stid), n, "qual")
                         \o (IF /\ g.flags \cap { "C_GIB_DECL",
                                                  "C_GIB_TYPEDEF" } # {}
                                /\ c_ast_find_name_up(a, n) # << >>
                               THEN << Tok(" ", n, "sp") >> ELSE << >>))
          ELSE g1
  IN  g_print_ast_name(g2, a, n)

\* A g_space_before_ptr_ref that forgets function-like ancestors (used to
\* test the claims).
g_space_before_ptr_ref_named(g, a, n) ==
  IF g.skip_name_for_using THEN FALSE
  ELSE IF "C_GIB_CAST" \in g.flags THEN FALSE
  ELSE c_ast_find_name_up(a, n) # << >>

g_space_before_ptr_ref(g, a, n) ==
  IF g.skip_name_for_using THEN FALSE
  ELSE IF "C_GIB_CAST" \in g.flags THEN FALSE
  ELSE IF c_ast_find_name_up(a, n) = << >> THEN FALSE
  ELSE IF c_ast_find_kind_any_up(a, a[n].parent_ast, K_ANY_FUNCTION_LIKE) # 0
    THEN "C_GIB_MULTI_DECL" \in g.flags
  ELSE TRUE

g_print_ast_bit_width(g, a, n) ==
  LET g1 == IF c_ast_is_kind_any(a, n, { "K_BUILTIN", "K_TYPEDEF" })
              THEN g ELSE [g EXCEPT !.failed = TRUE]
  IN  IF a[n].bit_width > 0
        THEN Put(g1, << Tok(" : ", n, "width"),
                        Tok(ToString(a[n].bit_width), n, "width") >>)
        ELSE g1

g_print_ast_array_size(g, a, n) ==
  LET node == a[n]
      g1 == Put(g, << Tok(graph_token_c("["), n, "open_size") >>)
      g2 == IF node.array_stids # TNONE
              THEN Put(g1, WordToks(c_tid_name_c(node.array_stids), n, "qual")
                             \o << Tok(" ", n, "sp") >>)
              ELSE g1
      g3 == CASE node.size = C_ARRAY_SIZE_NONE -> g2
              [] node.size = C_ARRAY_SIZE_VARIABLE ->
                   Put(g2, << Tok("*", n, "size") >>)
              [] OTHER -> Put(g2, << Tok(ToString(node.size), n, "size") >>)
  IN  Put(g3, << Tok(graph_token_c("]"), n, "close_size") >>)


\* The kinds of g_print_ast's first case group whose function-tail
\* qualifiers are stripped from the leading type (the cases that fall into
\* the code under K_FUNCTION).
K_TAIL_KINDS ==
  { "K_CONSTRUCTOR", "K_DESTRUCTOR", "K_USER_DEF_CONVERSION", "K_FUNCTION",
    "K_OPERATOR", "K_USER_DEF_LITERAL" }

K_NO_RETURN_KINDS ==
  { "K_CONSTRUCTOR", "K_DESTRUCTOR", "K_USER_DEF_CONVERSION" }

\* A variant that prints noexcept and throw() as the node carries them.
FuncTailVars_asis(type, lang) ==
  LET is_final == "TS_FINAL" \in type.stids
  IN  [ cv_qual_stid    |-> type.stids \cap TS_MASK_QUALIFIER,
        is_default      |-> "TS_DEFAULT" \in type.stids,
        is_delete       |-> "TS_DELETE" \in type.stids,
        is_final        |-> is_final,
        is_pure_virtual |-> "TS_PURE_VIRTUAL" \in type.stids,
        ref_qual_stid   |-> type.stids \cap TS_MASK_REF_QUALIFIER,
        is_override     |-> ~is_final /\ "TS_OVERRIDE" \in type.stids,
        is_noexcept     |-> "TS_NOEXCEPT" \in type.stids,
        is_throw        |-> "TS_THROW" \in type.stids ]

\* The local variables g_print_ast sets for a function-like node: which
\* tail qualifiers to print after the parameters.
FuncTailVars(type, lang) ==
  LET is_final    == "TS_FINAL" \in type.stids
      is_noexcept == "TS_NOEXCEPT" \in type.stids
      is_throw    == "TS_THROW" \in type.stids
  IN  [ cv_qual_stid    |-> type.stids \cap TS_MASK_QUALIFIER,
        is_default      |-> "TS_DEFAULT" \in type.stids,
        is_delete       |-> "TS_DELETE" \in type.stids,
        is_final        |-> is_final,
        is_pure_virtual |-> "TS_PURE_VIRTUAL" \in type.stids,
        ref_qual_stid   |-> type.stids \cap TS_MASK_REF_QUALIFIER,
        is_override     |-> ~is_final /\ "TS_OVERRIDE" \in type.stids,
        \* noexcept and throw() are exchanged by language
        is_noexcept     |-> IF lang < LANG_CPP_11 THEN FALSE
                            ELSE is_noexcept \/ is_throw,
        is_throw        |-> IF lang < LANG_CPP_11 THEN is_throw \/ is_noexcept
                            ELSE FALSE ]

NoTailVars ==
  [ cv_qual_stid |-> TNONE, is_default |-> FALSE, is_delete |-> FALSE,
    is_final |-> FALSE, is_pure_virtual |-> FALSE, ref_qual_stid |-> TNONE,
    is_override |-> FALSE, is_noexcept |-> FALSE, is_throw |-> FALSE ]

\* A variant that leaves virtual in the leading type.
FuncLeadType_virtual(type, tv) ==
  [ type EXCEPT
      !.stids = @ \ ( TS_MASK_QUALIFIER
                      \cup { "TS_DEFAULT", "TS_DELETE", "TS_FINAL",
                             "TS_NOEXCEPT", "TS_OVERRIDE", "TS_PURE_VIRTUAL",
                             "TS_THROW" }
                      \cup TS_MASK_REF_QUALIFIER ),
      !.atids = @ \ TA_ANY_MSC_CALL ]

\* The type of a function-like node with everything removed that is not
\* printed as part of the leading type.
FuncLeadType(type, tv) ==
  [ type EXCEPT
      !.stids = @ \ ( TS_MASK_QUALIFIER
                      \cup { "TS_DEFAULT", "TS_DELETE", "TS_FINAL",
                             "TS_NOEXCEPT", "TS_OVERRIDE", "TS_PURE_VIRTUAL",
                             "TS_THROW" }
                      \cup TS_MASK_REF_QUALIFIER
                      \cup (IF tv.is_override \/ tv.is_final
                              THEN { "TS_VIRTUAL" } ELSE {}) ),
      !.atids = @ \ TA_ANY_MSC_CALL ]

\* What g_print_ast prints after the parameters (and after the postfix part)
\* of a function-like node.
FuncTailToks(tv, n) ==
  (IF tv.cv_qual_stid # TNONE
     THEN << Tok(" ", n, "sp") >>
            \o WordToks(c_tid_name_c(tv.cv_qual_stid), n, "tail")
     ELSE << >>)
  \o (IF tv.ref_qual_stid # TNONE
        THEN << Tok(" ", n, "sp"),
                Tok(IF "TS_REFERENCE" \in tv.ref_qual_stid
                      THEN "&" ELSE "&&", n, "tail") >>
        ELSE << >>)
  \o (IF tv.is_noexcept
        THEN << Tok(" ", n, "sp"), Tok("noexcept", n, "tail") >>
      ELSE IF tv.is_throw
        THEN << Tok(" ", n, "sp"), Tok("throw()", n, "tail") >>
      ELSE << >>)
  \o (IF tv.is_override
        THEN << Tok(" ", n, "sp"), Tok("override", n, "tail") >>
      ELSE IF tv.is_final
        THEN << Tok(" ", n, "sp"), Tok("final", n, "tail") >>
      ELSE IF tv.is_pure_virtual
        THEN << Tok(" ", n, "sp"), Tok("= 0", n, "tail") >>
      ELSE << >>)
  \o (IF tv.is_default
        THEN << Tok(" ", n, "sp"), Tok("= default", n, "tail") >>
      ELSE IF tv.is_delete
        THEN << Tok(" ", n, "sp"), Tok("= delete", n, "tail") >>
      ELSE << >>)

RECURSIVE g_print_ast(_, _, _)
RECURSIVE g_print_postfix(_, _, _)
RECURSIVE g_print_ast_list(_, _, _, _)

\* g_print_ast_list: the parameters from the i-th on, each with a g_state of
\* its own writing to the same gout.
g_print_ast_list(g, a, list, i) ==
  IF i > Len(list) THEN g
  ELSE LET g1 == IF i > 1 THEN Put(g, << Tok(", ", 0, "comma") >>) ELSE g
           params_g == g_init(g.flags \ { "C_GIB_OMIT_TYPE" }, FALSE,
                              g1.out, g1.failed)
           pg == g_print_ast(params_g, a, list[i])
       IN  g_print_ast_list([g EXCEPT !.out = pg.out, !.failed = pg.failed],
                            a, list, i + 1)

\* The first case group of g_print_ast: function-like kinds, arrays, blocks.
g_print_ast_parent(g, a, n) ==
  LET node == a[n]
      is_tail == node.kind \in K_TAIL_KINDS
      g0 == IF node.kind \in K_NO_RETURN_KINDS
              THEN [g EXCEPT !.printed_space = TRUE] ELSE g
      tv == IF is_tail THEN FuncTailVars(node.type, opt_lang) ELSE NoTailVars
      type == IF is_tail THEN FuncLeadType(node.type, tv) ELSE node.type
      msc_call_atid == IF is_tail THEN node.type.atids \cap TA_ANY_MSC_CALL
                       ELSE TNONE
      g1 == IF ~c_type_is_none(type)
              THEN Put(g0, WordToks(c_type_name_c(type), n, "type")
                             \o << Tok(" ", n, "sp") >>)
              ELSE g0
      g2 == IF node.kind = "K_USER_DEF_CONVERSION"
              THEN Put(IF ~c_sname_empty(node.sname)
                         THEN Put(g1, << Tok(c_sname_full_name(node.sname),
                                             n, "scope"),
                                         Tok("::", n, "scope") >>)
                         ELSE g1,
                       << Tok("operator", n, "name"), Tok(" ", n, "sp") >>)
              ELSE g1
      g3 == IF node.of_ast # 0 THEN g_print_ast(g2, a, node.of_ast) ELSE g2
      g4 == IF msc_call_atid # TNONE /\ ~c_ast_parent_is_kind(a, n, "K_POINTER")
              THEN Put(g3, << Tok(" ", n, "sp") >>
                             \o WordToks(c_tid_name_c(msc_call_atid), n, "msc"))
              ELSE g3
      g5 == IF ~g4.postfix
              THEN LET gp == [g4 EXCEPT !.postfix = TRUE]
                   IN  g_print_postfix(
                         IF /\ ~gp.skip_name_for_using
                            /\ "C_GIB_CAST" \notin gp.flags
                           THEN g_print_space_once(gp, n) ELSE gp, a, n)
              ELSE g4
  IN  Put(g5, FuncTailToks(tv, n))

\* A variant that never defers the qualifiers of the type.
g_print_ast_ecsu_keep(g, a, n) ==
  g_print_space_ast_name(
    PutStr(Put(g, WordToks(c_type_name_ecsu(a[n].type), n, "type")
                    \o << Tok(" ", n, "sp") >>),
           c_sname_full_name(a[n].ecsu_sname), n, "tag"), a, n)

g_print_ast_ecsu(g, a, n) ==
  LET node == a[n]
      type0 == IF "TB_ENUM" \in node.type.btids
                 THEN [node.type EXCEPT !.btids = @ \ { "TB_STRUCT", "TB_CLASS" }]
                 ELSE node.type
      cv_qual_stid == IF opt_east_const THEN type0.stids \cap TS_CV ELSE TNONE
      type == IF opt_east_const
                THEN [type0 EXCEPT !.stids = @ \ TS_CV] ELSE type0
      type_name == IF g.flags \cap { "C_GIB_CAST", "C_GIB_DECL" } # {}
                     THEN c_type_name_ecsu(type) ELSE c_type_name_c(type)
      g1 == Put(g, WordToks(type_name, n, "type"))
      g2 == IF "C_GIB_TYPEDEF" \notin g.flags \/ g.printing_typedef
              THEN PutStr(IF type_name # << >>
                            THEN Put(g1, << Tok(" ", n, "sp") >>) ELSE g1,
                          c_sname_full_name(node.ecsu_sname), n, "tag")
              ELSE g1
      g3 == IF node.of_ast # 0
              THEN g_print_ast(Put(g2, << Tok(" : ", n, "of") >>), a, node.of_ast)
              ELSE g2
      g4 == IF cv_qual_stid # TNONE
              THEN Put(g3, << Tok(" ", n, "sp") >>
                             \o WordToks(c_tid_name_c(cv_qual_stid), n, "qual"))
              ELSE g3
  IN  g_print_space_ast_name(g4, a, n)

g_print_ast_typedef(g, a, n) ==
  LET node == a[n]
      is_more_than_plain_typedef ==
        node.type # C_TYPE_LIT({ "TB_TYPEDEF" }, TNONE, TNONE)
      print_parens_for_cpp23_Atomic ==
        opt_lang >= LANG_CPP_23 /\ "TS_ATOMIC" \in node.type.stids
      g1 == IF is_more_than_plain_typedef /\ ~opt_east_const
              THEN Put(g, WordToks(c_type_name_c(node.type), n, "type")) ELSE g
      g2 == IF print_parens_for_cpp23_Atomic
              THEN Put(g1, << Tok("(", n, "atomic") >>)
            ELSE IF is_more_than_plain_typedef /\ ~opt_east_const
              THEN Put(g1, << Tok(" ", n, "sp") >>)
            ELSE g1
      \* g_print_ast_name( g, ast->as.tdef.for_ast ) with skip_name_for_using
      \* temporarily false
      g3 == PutStr(g2, IF "C_GIB_TYPEDEF" \in g.flags
                         THEN c_sname_local_name(node.for_sname)
                         ELSE c_sname_full_name(node.for_sname), n, "tdef")
      g4 == IF print_parens_for_cpp23_Atomic
              THEN Put(g3, << Tok(")", n, "atomic") >>) ELSE g3
      g5 == IF is_more_than_plain_typedef /\ opt_east_const
              THEN Put(g4, << Tok(" ", n, "sp") >>
                             \o WordToks(c_type_name_c(node.type), n, "type"))
              ELSE g4
      g6 == IF "C_GIB_OMIT_TYPE" \notin g.flags THEN g5 ELSE g
  IN  g_print_ast_bit_width(g_print_space_ast_name(g6, a, n), a, n)

g_print_ast(g, a, n) ==
  LET node == a[n] IN
  CASE node.kind \in K_TAIL_KINDS \cup { "K_ARRAY", "K_APPLE_BLOCK" } ->
         g_print_ast_parent(g, a, n)
    [] node.kind = "K_BUILTIN" ->
         g_print_ast_bit_width(
           g_print_space_ast_name(
             IF "C_GIB_OMIT_TYPE" \notin g.flags
               THEN Put(g, WordToks(c_type_name_c(node.type), n, "type"))
               ELSE g, a, n), a, n)
    [] node.kind = "K_ENUM_CLASS_STRUCT_UNION" -> g_print_ast_ecsu(g, a, n)
    [] node.kind = "K_NAME" ->
         LET g0 == IF opt_lang < LANG_C_2X THEN g
                   ELSE [g EXCEPT !.failed = TRUE]
             g1 == IF opt_lang > LANG_C_KNR
                     THEN Put(g0, << Tok("int", n, "type") >>) ELSE g0
         IN  IF "C_GIB_CAST" \notin g.flags
               THEN g_print_ast_name(
                      IF opt_lang > LANG_C_KNR
                        THEN Put(g1, << Tok(" ", n, "sp") >>) ELSE g1, a, n)
               ELSE g1
    [] node.kind \in { "K_POINTER", "K_REFERENCE", "K_RVALUE_REFERENCE" } ->
         LET stid == node.type.stids \cap TS_MASK_STORAGE
             g1 == IF "C_GIB_OMIT_TYPE" \notin g.flags /\ stid # TNONE
                     THEN Put(g, WordToks(c_tid_name_c(stid), n, "type")
                                   \o << Tok(" ", n, "sp") >>)
                     ELSE g
             g2 == g_print_ast(g1, a, node.of_ast)
             g3 == IF g_space_before_ptr_ref(g2, a, n)
                     THEN g_print_space_once(g2, n) ELSE g2
         IN  IF ~g3.postfix THEN g_print_qual_name(g3, a, n) ELSE g3
    [] node.kind = "K_POINTER_TO_MEMBER" ->
         LET g1 == g_print_ast(g, a, node.of_ast)
         IN  IF ~g1.postfix
               THEN g_print_qual_name(Put(g1, << Tok(" ", n, "sp") >>), a, n)
               ELSE g1
    [] node.kind = "K_TYPEDEF" -> g_print_ast_typedef(g, a, n)
    [] node.kind = "K_VARIADIC" -> Put(g, << Tok("...", n, "type") >>)
    [] OTHER -> [g EXCEPT !.failed = TRUE]     \* CASE_K_PLACEHOLDER

\* The second switch of g_print_postfix: the postfix things of the node.
g_print_postfix_suffix(g, a, n) ==
  LET node == a[n] IN
  CASE node.kind = "K_ARRAY" -> g_print_ast_array_size(g, a, n)
    [] node.kind \in { "K_APPLE_BLOCK", "K_CONSTRUCTOR", "K_FUNCTION",
                       "K_OPERATOR", "K_USER_DEF_LITERAL" } ->
         Put(g_print_ast_list(Put(g, << Tok("(", n, "open_params") >>),
                              a, node.param_ast_list, 1),
             << Tok(")", n, "close_params") >>)
    [] node.kind \in { "K_DESTRUCTOR", "K_USER_DEF_CONVERSION" } ->
         Put(g, << Tok("(", n, "open_params"), Tok(")", n, "close_params") >>)
    [] node.kind = "K_PLACEHOLDER" -> [g EXCEPT !.failed = TRUE]
    [] OTHER -> g

\* The parenthesis g_print_postfix opens for a node whose parent is a
\* pointer, pointer to member or reference.
\* A variant that opens a parenthesis for a pointer under a pointer too.
PostfixOpenToks_each(a, n) ==
  IF a[n].kind = "K_APPLE_BLOCK" THEN << Tok("(^", n, "open") >>
  ELSE << Tok("(", n, "open") >>

PostfixOpenToks(a, n) ==
  CASE a[n].kind = "K_APPLE_BLOCK" -> << Tok("(^", n, "open") >>
    [] a[n].kind = "K_POINTER" -> << >>
    [] OTHER ->
         << Tok("(", n, "open") >>
           \o (IF a[n].type.atids \cap TA_ANY_MSC_CALL # TNONE
                 THEN WordToks(c_tid_name_c(a[n].type.atids
                                              \cap TA_ANY_MSC_CALL), n, "msc")
                        \o << Tok(" ", n, "sp") >>
                 ELSE << >>)

\* Whether g_print_postfix closes the parenthesis for the node.
PostfixCloses(a, n) == ~c_ast_is_kind_any(a, n, K_ANY_POINTER)

g_print_postfix(g, a, n) ==
  LET node == a[n]
      parent_ast == node.parent_ast
      g1 ==
        IF parent_ast # 0
          THEN CASE a[parent_ast].kind \in K_ANY_FUNCTION_LIKE \cup { "K_ARRAY" } ->
                      g_print_postfix(g, a, parent_ast)
                 [] a[parent_ast].kind \in K_ANY_POINTER \cup K_ANY_REFERENCE ->
                      LET ga == Put(g, PostfixOpenToks(a, n))
                          gb == g_print_qual_name(ga, a, parent_ast)
                          gc == IF c_ast_is_parent(a, a[parent_ast].parent_ast)
                                  THEN g_print_postfix(gb, a, parent_ast)
                                  ELSE gb
                      IN  IF PostfixCloses(a, n)
                            THEN Put(gc, << Tok(")", n, "close") >>) ELSE gc
                 [] a[parent_ast].kind = "K_PLACEHOLDER" ->
                      [g EXCEPT !.failed = TRUE]
                 [] OTHER -> g
          ELSE LET ga == IF node.kind = "K_APPLE_BLOCK"
                           THEN Put(g, << Tok("(^", n, "open") >>) ELSE g
                   gb == g_print_space_ast_name(ga, a, n)
               IN  IF node.kind = "K_APPLE_BLOCK"
                     THEN Put(gb, << Tok(")", n, "close") >>) ELSE gb
  IN  g_print_postfix_suffix(g1, a, n)

c_ast_gibberish_impl(a, n, flags, printing_typedef) ==
  g_print_ast(g_init(flags, printing_typedef, << >>, FALSE), a, n)

\* The text of a token sequence.
RECURSIVE Text(_)
Text(toks) == IF toks = << >> THEN "" ELSE Head(toks).t \o Text(Tail(toks))


(***************************************************************************)
(* The English printer (english.c).  It knows a node's type as one type    *)
(* id (type_id) and visits the AST from the root down.                     *)
(***************************************************************************)
RECURSIVE JoinSp(_)
JoinSp(ws) ==
  IF ws = << >> THEN ""
  ELSE IF Len(ws) = 1 THEN ws[1]
  ELSE ws[1] \o " " \o JoinSp(Tail(ws))

\* c_type_name( type_id )
c_type_name(type) ==
  JoinSp(NamesIn(AttrOrder, type.atids) \o NamesIn(StorageOrder, type.stids)
           \o NamesIn(QualOrder, type.stids) \o NamesIn(BaseOrder, type.btids))

c_kind_name(kind) ==
  CASE kind = "K_ARRAY" -> "array"
    [] kind = "K_APPLE_BLOCK" -> "block"
    [] kind = "K_FUNCTION" -> "function"
    [] kind = "K_OPERATOR" -> "operator"
    [] kind = "K_POINTER" -> "pointer"
    [] kind = "K_REFERENCE" -> "reference"
    [] kind = "K_RVALUE_REFERENCE" -> "rvalue reference"
    [] kind = "K_VARIADIC" -> "variadic"
    [] OTHER -> kind

T_MEMBER_ONLY_TIDS ==
  { "TS_CONST", "TS_VOLATILE", "TS_DEFAULT", "TS_DELETE", "TS_OVERRIDE",
    "TS_FINAL", "TS_VIRTUAL", "TS_REFERENCE", "TS_RESTRICT",
    "TS_RVALUE_REFERENCE" }

\* SP_AFTER: the string and a space, if the string is not empty.
SP_AFTER(str) == IF str = "" THEN "" ELSE str \o " "

\* c_ast_name( ast, V_DOWN ): the first name from the node down; "" if none.
RECURSIVE c_ast_name_down(_, _)
c_ast_name_down(a, n) ==
  IF n = 0 THEN ""
  ELSE IF ~c_sname_empty(a[n].sname) THEN c_sname_full_name(a[n].sname)
  ELSE IF c_ast_is_parent(a, n) THEN c_ast_name_down(a, a[n].of_ast)
  ELSE ""

RECURSIVE c_ast_english(_, _)
RECURSIVE english_args(_, _, _)

\* A variant that prints neither `<name> as` nor the commas.
english_args_plain(a, list, i) ==
  IF i > Len(list) THEN ""
  ELSE c_ast_english(a, list[i]) \o " " \o english_args(a, list, i + 1)

\* The arguments of a function from the i-th on.
english_args(a, list, i) ==
  IF i > Len(list) THEN ""
  ELSE LET arg == list[i]
           name == c_ast_name_down(a, arg)
       IN  (IF i > 1 THEN ", " ELSE "")
             \o (IF a[arg].kind # "K_NAME" /\ name # ""
                   THEN name \o " as " ELSE "")
             \o c_ast_english(a, arg)
             \o english_args(a, list, i + 1)

\* A variant that prints `of` after the class name of a pointer to member.
c_ast_visitor_english_of(a, n) ==
  IF a[n].kind = "K_POINTER_TO_MEMBER"
    THEN "pointer to member of class "
           \o c_sname_full_name(a[n].class_sname) \o " of "
    ELSE c_kind_name(a[n].kind) \o " "

\* What the visitor prints for one node.
c_ast_visitor_english(a, n) ==
  LET node == a[n]
      qualifier == C_TYPE_LIT(TNONE, node.type.stids \cap TS_MASK_QUALIFIER,
                              TNONE)
  IN
  CASE node.kind = "K_ARRAY" ->
         SP_AFTER(c_type_name(node.type))
           \o (IF node.size = C_ARRAY_SIZE_VARIABLE
                 THEN "variable length " ELSE "")
           \o "array "
           \o SP_AFTER(JoinSp(c_tid_name_c(node.array_stids)))
           \o (IF node.size >= 0 THEN ToString(node.size) \o " " ELSE "")
           \o "of "
    [] node.kind \in { "K_APPLE_BLOCK", "K_FUNCTION", "K_OPERATOR" } ->
         SP_AFTER(c_type_name(node.type))
           \o (IF /\ node.kind = "K_FUNCTION"
                  /\ node.type.stids \cap T_MEMBER_ONLY_TIDS # TNONE
                 THEN "member " ELSE "")
           \o c_kind_name(node.kind)
           \o (IF node.param_ast_list # << >>
                 THEN " (" \o english_args(a, node.param_ast_list, 1) \o ")"
                 ELSE "")
           \o " returning "
    [] node.kind = "K_BUILTIN" -> c_type_name(node.type)
    [] node.kind = "K_ENUM_CLASS_STRUCT_UNION" ->
         c_type_name(node.type) \o " " \o c_sname_full_name(node.ecsu_sname)
    [] node.kind = "K_NAME" -> c_sname_full_name(node.sname)
    [] node.kind \in { "K_POINTER", "K_REFERENCE", "K_RVALUE_REFERENCE" } ->
         SP_AFTER(c_type_name(qualifier))
           \o c_kind_name(node.kind) \o " to "
    [] node.kind = "K_POINTER_TO_MEMBER" ->
         SP_AFTER(c_type_name(qualifier))
           \o "pointer to member of "
           \o SP_AFTER(c_type_name([node.type EXCEPT
                                      !.stids = @ \ TS_MASK_QUALIFIER]))
           \o c_sname_full_name(node.class_sname) \o " "
    [] node.kind = "K_TYPEDEF" ->
         (IF node.type # C_TYPE_LIT({ "TB_TYPEDEF" }, TNONE, TNONE)
            THEN c_type_name(node.type) \o " " ELSE "")
           \o c_sname_full_name(node.for_sname)
    [] node.kind = "K_VARIADIC" -> c_kind_name(node.kind)
    [] OTHER -> ""

\* c_ast_english: c_ast_visit( ast, V_DOWN, c_ast_visitor_english ).
c_ast_english(a, n) ==
  c_ast_visitor_english(a, n)
    \o (IF c_ast_is_parent(a, n) /\ a[n].of_ast # 0
          THEN c_ast_english(a, a[n].of_ast) ELSE "")

(***************************************************************************)
(* Building a declaration's AST.  A declaration starts from the AST of its *)
(* type specifier and is wrapped, innermost first, in the nodes of its     *)
(* declarator; the declared name stays on the root.  Only combinations the *)
(* declaration checker accepts in the current language are built.          *)
(***************************************************************************)
MaxDepth == 3

T_INT_LIT   == C_TYPE_LIT({ "TB_INT" }, TNONE, TNONE)
T_CHAR_LIT  == C_TYPE_LIT({ "TB_CHAR" }, TNONE, TNONE)

\* Parameter ASTs, each a small arena of its own (ids relative to it, the
\* root last); a parameter AST has no parent.
P_INT_X  == << c_ast_new("K_BUILTIN", T_INT_LIT, << "x" >>, 0) >>
P_INT_Y  == << c_ast_new("K_BUILTIN", T_INT_LIT, << "y" >>, 0) >>
P_CHAR   == << c_ast_new("K_BUILTIN", T_CHAR_LIT, << >>, 0) >>
P_NAME   == << c_ast_new("K_NAME", C_TYPE_NONE, << "n" >>, 0) >>
P_VARIADIC == << c_ast_new("K_VARIADIC", C_TYPE_NONE, << >>, 0) >>
P_PTR_S  == << [c_ast_new("K_BUILTIN", T_CHAR_LIT, << >>, 0)
                  EXCEPT !.parent_ast = 2],
               c_ast_new("K_POINTER", C_TYPE_NONE, << "s" >>, 1) >>

ParamListsC   == { << >>, << P_INT_X, P_INT_Y >>, << P_CHAR >> }
ParamListsKNR == { << P_NAME >> }
ParamListsAll == ParamListsC \cup ParamListsKNR
                   \cup { << P_PTR_S, P_VARIADIC >> }

Relocate(nodes, off) ==
  [ i \in 1..Len(nodes) |->
      [ nodes[i] EXCEPT
          !.parent_ast = IF @ = 0 THEN 0 ELSE @ + off,
          !.of_ast = IF @ = 0 THEN 0 ELSE @ + off ] ]

\* The arena of a parameter list placed from id `off + 1` on, and the ids of
\* the parameters' roots.
RECURSIVE ParamArena(_, _)
ParamArena(plist, off) ==
  IF plist = << >> THEN << >>
  ELSE Relocate(Head(plist), off)
         \o ParamArena(Tail(plist), off + Len(Head(plist)))

RECURSIVE ParamRoots(_, _)
ParamRoots(plist, off) ==
  IF plist = << >> THEN << >>
  ELSE << off + Len(Head(plist)) >>
         \o ParamRoots(Tail(plist), off + Len(Head(plist)))

HasKind(plist, kind) ==
  \E i \in 1..Len(plist) : \E j \in 1..Len(plist[i]) : plist[i][j].kind = kind

\* Number of nodes on the path from the root down to the leaf, less one.
RECURSIVE Depth(_, _)
Depth(a, n) == IF a[n].of_ast = 0 THEN 0 ELSE 1 + Depth(a, a[n].of_ast)

K_CPP_ONLY ==
  { "K_REFERENCE", "K_RVALUE_REFERENCE", "K_POINTER_TO_MEMBER",
    "K_CONSTRUCTOR", "K_DESTRUCTOR", "K_OPERATOR", "K_USER_DEF_CONVERSION",
    "K_USER_DEF_LITERAL" }

K_ROOT_ONLY ==
  { "K_CONSTRUCTOR", "K_DESTRUCTOR", "K_OPERATOR", "K_USER_DEF_CONVERSION",
    "K_USER_DEF_LITERAL" }

\* The checker's rules for a node of kind `kind` above a node of kind `of`.
LegalOver(kind, of) ==
  /\ of \notin K_ROOT_ONLY
  /\ kind = "K_POINTER" => of \notin K_ANY_REFERENCE
  /\ kind = "K_POINTER_TO_MEMBER" => of \notin K_ANY_REFERENCE
  /\ kind \in K_ANY_REFERENCE => of \notin K_ANY_REFERENCE
  /\ kind = "K_ARRAY" => of \notin K_ANY_REFERENCE \cup K_ANY_FUNCTION_LIKE
  /\ kind \in K_ANY_FUNCTION_LIKE =>
       of \notin K_ANY_FUNCTION_LIKE \cup { "K_ARRAY" }

LegalInLang(kind, lang) ==
  /\ kind \in K_CPP_ONLY => lang >= LANG_CPP_98
  /\ kind \in { "K_RVALUE_REFERENCE", "K_USER_DEF_LITERAL" } =>
       lang >= LANG_CPP_11

\* Enumerations are allowed to be bit fields only in C++.
LegalBitField(node, lang) ==
  /\ node.bit_width > 0 => node.kind \in K_ANY_BIT_FIELD
  /\ node.bit_width > 0 /\ node.kind = "K_ENUM_CLASS_STRUCT_UNION" =>
       lang >= LANG_CPP_98 /\ "TB_ENUM" \in node.type.btids

LegalParams(plist, lang) ==
  /\ HasKind(plist, "K_NAME") => lang < LANG_C_2X

\* Start a declaration from the AST of its type specifier.
StartDecl(leaf) ==
  /\ pc = "idle"
  /\ LegalInLang(leaf.kind, opt_lang)
  /\ LegalBitField(leaf, opt_lang)
  /\ ast' = << leaf >>
  /\ root' = 1
  /\ pc' = "build"
  /\ UNCHANGED << auxVars, typeVars, optVars, printVars, graphVars >>

\* Put `node` above the current root, with the parameters `plist`.
Wrap(node, plist) ==
  /\ pc = "build"
  /\ Depth(ast, root) < MaxDepth
  /\ LegalOver(node.kind, ast[root].kind)
  /\ ast[root].bit_width = 0
  /\ LegalInLang(node.kind, opt_lang)
  /\ LegalParams(plist, opt_lang)
  /\ LET id == Len(ast) + 1 IN
       /\ ast' = Append([ast EXCEPT ![root].parent_ast = id,
                                    ![root].sname = << >>],
                        [node EXCEPT !.of_ast = root,
                                     !.sname = ast[root].sname,
                                     !.param_ast_list = ParamRoots(plist, id)])
                   \o ParamArena(plist, id)
       /\ root' = id
  /\ UNCHANGED << auxVars, typeVars, optVars, printVars, graphVars, pc >>

\* c_ast_gibberish: print the declaration.
Gibberish(flags) ==
  /\ pc = "build"
  /\ LET g == c_ast_gibberish_impl(ast, root, flags, FALSE) IN
       /\ gout' = g.out
       /\ gfailed' = g.failed
  /\ gib_flags' = flags
  /\ pc' = "printed"
  /\ UNCHANGED << auxVars, typeVars, optVars, astVars, graphVars, eout >>

\* c_ast_english: explain the declaration.
English ==
  /\ pc = "build"
  /\ eout' = c_ast_english(ast, root)
  /\ pc' = "printed"
  /\ UNCHANGED << auxVars, typeVars, optVars, astVars, graphVars, gib_flags, gout,
                  gfailed >>

\* The command is over: its AST is freed.
EndCommand ==
  /\ pc = "printed"
  /\ ast' = << >>
  /\ root' = 0
  /\ gout' = << >>
  /\ gfailed' = FALSE
  /\ gib_flags' = {}
  /\ eout' = ""
  /\ pc' = "idle"
  /\ UNCHANGED << auxVars, typeVars, optVars, graphVars >>

\* The set command, between declarations.
SetLang(lang) ==
  /\ pc = "idle"
  /\ opt_lang' = lang
  /\ UNCHANGED << auxVars, typeVars, opt_alt_tokens, opt_east_const, opt_graph,
                  opt_semicolon, astVars, printVars, graphVars, pc >>

SetAltTokens(b) ==
  /\ pc = "idle"
  /\ opt_alt_tokens' = b
  /\ UNCHANGED << auxVars, typeVars, opt_lang, opt_east_const, opt_graph,
                  opt_semicolon, astVars, printVars, graphVars, pc >>

SetEastConst(b) ==
  /\ pc = "idle"
  /\ opt_east_const' = b
  /\ UNCHANGED << auxVars, typeVars, opt_lang, opt_alt_tokens, opt_graph,
                  opt_semicolon, astVars, printVars, graphVars, pc >>

SetGraph(gr) ==
  /\ pc = "idle"
  /\ opt_graph' = gr
  /\ UNCHANGED << auxVars, typeVars, opt_lang, opt_alt_tokens, opt_east_const,
                  opt_semicolon, astVars, printVars, graphVars, pc >>

InitCommon ==
  /\ dest_type = T_NONE
  /\ new_type = T_NONE
  /\ add_ret = TRUE
  /\ opt_lang = LANG_CPP_NEW
  /\ opt_alt_tokens = FALSE
  /\ opt_east_const = FALSE
  /\ opt_graph = C_GRAPH_NONE
  /\ opt_semicolon = TRUE
  /\ ast = << >>
  /\ root = 0
  /\ gib_flags = {}
  /\ gout = << >>
  /\ gfailed = FALSE
  /\ eout = ""
  /\ token = ""
  /\ graph_ret = ""
  /\ tdef_lang_ids = {}
  /\ source = ""
  /\ target = ""
  /\ edit_dist = 0
  /\ kind_hdr = "c_kind.h"
  /\ kind_id = "K_PLACEHOLDER"
  /\ kind_ids = "K_ANY_PARENT"
  /\ kind_ret = FALSE
  /\ argc = 1
  /\ argv = << >>
  /\ opts_given = {}
  /\ exit_status = ""
  /\ prompt_enabled = TRUE
  /\ set_opt = ""
  /\ set_out = {}
  /\ main_me = "cdecl"
  /\ main_argv = << >>
  /\ main_tty = FALSE
  /\ main_i = 0
  /\ main_ok = TRUE
  /\ stdin_caller = "main"
  /\ stdin_ok = TRUE
  /\ stdin_lines = << >>
  /\ touched = << >>
  /\ main_status = ""
  /\ gen_src = "gibberish.c"
  /\ gen_text = ""
  /\ text_len = 0
  /\ match_command = 0
  /\ match_index = 0
  /\ gen_calls = 0
  /\ gen_rets = << >>
  /\ free_head = << >>
  /\ freed = << >>
  /\ since = << >>
  /\ free_last = [ op |-> "", arg |-> 0, ret |-> 0, log |-> << >> ]
  /\ pc = "idle"

(***************************************************************************)
(* Spec: declarations of every shape are built and printed as gibberish.   *)
(***************************************************************************)
LeafNodes ==
  { c_ast_new("K_BUILTIN", T_INT_LIT, << "x" >>, 0),
    c_ast_new("K_BUILTIN", T_CHAR_LIT, << "f" >>, 0) }

PointerNodes ==
  { c_ast_new("K_POINTER", C_TYPE_NONE, << >>, 0),
    c_ast_new("K_POINTER", C_TYPE_LIT(TNONE, { "TS_CONST" }, TNONE), << >>, 0),
    c_ast_new("K_REFERENCE", C_TYPE_NONE, << >>, 0),
    c_ast_new("K_RVALUE_REFERENCE", C_TYPE_NONE, << >>, 0),
    [c_ast_new("K_POINTER_TO_MEMBER", C_TYPE_NONE, << >>, 0)
       EXCEPT !.class_sname = << "C" >>] }

ArrayNodes ==
  { [c_ast_new("K_ARRAY", C_TYPE_NONE, << >>, 0) EXCEPT !.size = sz] :
      sz \in { 3, 10, C_ARRAY_SIZE_NONE } }

FuncNodes ==
  { c_ast_new("K_FUNCTION", C_TYPE_NONE, << >>, 0),
    c_ast_new("K_APPLE_BLOCK", C_TYPE_NONE, << >>, 0) }

Next ==
  \/ \E leaf \in LeafNodes : StartDecl(leaf)
  \/ \E node \in PointerNodes \cup ArrayNodes : Wrap(node, << >>)
  \/ \E node \in FuncNodes, plist \in ParamListsC : Wrap(node, plist)
  \/ \E flags \in { { "C_GIB_DECL" }, { "C_GIB_DECL", "C_GIB_MULTI_DECL" } } :
       Gibberish(flags)
  \/ EndCommand
  \/ \E b \in BOOLEAN : SetAltTokens(b)

Spec == InitCommon /\ [][Next]_vars

Printed == pc = "printed" /\ gout # << >>

Explained == pc = "printed" /\ eout # ""

TextOut == Text(gout)



(***************************************************************************)
(* Reading the printed tokens.                                             *)
(***************************************************************************)
ParenDelta(tok) ==
  CASE tok.t \in { "(", "(^" } -> 1
    [] tok.t = ")" -> 0 - 1
    [] OTHER -> 0

RECURSIVE MatchFrom(_, _, _)
\* The index of the token at or after k at which the parentheses opened
\* before it, `open` of them, are all closed; 0 if there is none.
MatchFrom(toks, k, open) ==
  IF k > Len(toks) THEN 0
  ELSE IF open + ParenDelta(toks[k]) = 0 THEN k
  ELSE MatchFrom(toks, k + 1, open + ParenDelta(toks[k]))

\* The index of the parenthesis closing the one opened by token i.
MatchClose(toks, i) == MatchFrom(toks, i + 1, 1)

\* The nodes from n down to the leaf.
RECURSIVE ChainOf(_, _)
ChainOf(a, n) == IF n = 0 THEN {} ELSE { n } \cup ChainOf(a, a[n].of_ast)

IsSuffixOpen(tok, c) == tok.n = c /\ tok.r \in { "open_size", "open_params" }

\* The nodes C1 speaks of: array or function-like with a pointer, pointer to
\* member or reference as parent.
PostfixUnderPtr(a, c) ==
  /\ a[c].kind \in K_ANY_FUNCTION_LIKE \cup { "K_ARRAY" }
  /\ a[c].parent_ast # 0
  /\ a[a[c].parent_ast].kind \in K_ANY_POINTER \cup K_ANY_REFERENCE

\* For node c: one pair of parentheses holds the parent's operator and the
\* declared name, and c's size or parameter list follows its closing one.
ParenthesizedIn(toks, a, c) ==
  \E i \in 1..Len(toks) :
    /\ toks[i].r = "open" /\ toks[i].n = c
    /\ LET k == MatchClose(toks, i) IN
         /\ k # 0
         /\ \E j \in (i + 1)..(k - 1) :
              toks[j].r = "op" /\ toks[j].n = a[c].parent_ast
         /\ \E j \in (i + 1)..(k - 1) : toks[j].r = "name"
         /\ k < Len(toks)
         /\ IsSuffixOpen(toks[k + 1], c)

\* Sizes and parameter lists appear in root-to-leaf order.
SuffixesRootToLeaf(toks, a, n) ==
  \A c1 \in ChainOf(a, n) : \A c2 \in ChainOf(a, a[c1].of_ast) :
    \A i1, i2 \in 1..Len(toks) :
      IsSuffixOpen(toks[i1], c1) /\ IsSuffixOpen(toks[i2], c2) => i1 < i2

\* C1 (as the documentation states it): when an array or function-like node
\* has a pointer, pointer-to-member, reference or rvalue-reference parent,
\* the printed declaration holds the parent's operator and the declared name
\* inside one pair of parentheses, the node's [size] or (parameters) comes
\* right after the closing parenthesis, and the suffixes appear in
\* root-to-leaf order.  The code violates it: for a pointer to member that
\* itself has a pointer parent the parenthesis is opened and never closed.
C1_ParenthesizedDeclarator ==
  Printed =>
    /\ \A c \in ChainOf(ast, root) :
         PostfixUnderPtr(ast, c) => ParenthesizedIn(gout, ast, c)
    /\ SuffixesRootToLeaf(gout, ast, root)

\* Pointer to pointer to member of C of array 3 of int named x.
C1_FailingInput ==
  /\ Printed
  /\ TextOut = "int (C::*(*x)[3]"

\* The shape of C2: a named function whose return type is a plain pointer to
\* a built-in type.
FuncReturningPtr(a, n) ==
  /\ a[n].kind = "K_FUNCTION"
  /\ a[a[n].of_ast].kind = "K_POINTER"
  /\ a[a[n].of_ast].type = C_TYPE_NONE
  /\ a[a[a[n].of_ast].of_ast].kind = "K_BUILTIN"

\* The tokens around the `*` of the return type: the one before, the one
\* after and the second after.
StarIndex(toks, p) == CHOOSE i \in 1..Len(toks) : toks[i].n = p /\ toks[i].r = "op"

StarLeft(toks, p) ==
  LET i == StarIndex(toks, p) IN
    /\ i > 1 /\ i + 2 <= Len(toks)
    /\ toks[i - 1].r = "type"
    /\ toks[i + 1].t = " "
    /\ toks[i + 2].r = "name"

StarRight(toks, p) ==
  LET i == StarIndex(toks, p) IN
    /\ i > 2 /\ i + 1 <= Len(toks)
    /\ toks[i - 2].r = "type"
    /\ toks[i - 1].t = " "
    /\ toks[i + 1].r = "name"

\* C2 (as the documentation states it): a function returning a pointer is
\* printed with the star next to the function's name, `char *f(int x, int y)`.
C2_StarNextToName ==
  Printed /\ FuncReturningPtr(ast, root) => StarRight(gout, ast[root].of_ast)

\* C2 (amended): a function returning a pointer is printed with the star
\* next to the pointed-to type and one space before the function's name,
\* `char* f(int x, int y)`; only when several declarators share the type
\* (C_GIB_MULTI_DECL) is the star printed next to the name.
C2_StarNextToType ==
  Printed /\ FuncReturningPtr(ast, root) =>
    IF "C_GIB_MULTI_DECL" \in gib_flags
      THEN StarRight(gout, ast[root].of_ast)
      ELSE StarLeft(gout, ast[root].of_ast)

C2_Witness ==
  /\ Printed
  /\ FuncReturningPtr(ast, root)
  /\ "C_GIB_MULTI_DECL" \notin gib_flags
  /\ TextOut = "char* f(int x, int y)"



(***************************************************************************)
(* c_type_add.  A declaration's type is accumulated one type keyword at a  *)
(* time into one destination type.                                         *)
(***************************************************************************)
MaxTypeBits == 3

\* The storage classes proper: at most one of them in a type.
T_ANY_STORAGE_CLASS ==
  T_AUTO_STORAGE \cup T_APPLE_BLOCK \cup T_EXTERN \cup T_MUTABLE
    \cup T_REGISTER \cup T_STATIC \cup T_THREAD_LOCAL \cup T_TYPEDEF

is_long_int(type) ==
  T_LONG \subseteq type /\ type \cap (T_FLOAT \cup T_DOUBLE) = T_NONE

\* Whether new_type cannot be combined with dest_type.
c_type_conflict(dest, new) ==
  \/ dest \cap new # T_NONE
  \/ T_LONG \subseteq new /\ T_LONG_LONG \subseteq dest
  \/ T_SIGNED \subseteq new /\ T_UNSIGNED \subseteq dest
  \/ T_UNSIGNED \subseteq new /\ T_SIGNED \subseteq dest
  \/ T_FLOAT \subseteq new /\ T_INT \subseteq dest
  \/ T_INT \subseteq new /\ T_FLOAT \subseteq dest
  \/ new \cap T_ANY_STORAGE_CLASS # T_NONE
       /\ dest \cap T_ANY_STORAGE_CLASS # T_NONE

\* A c_type_add that merges without any check (used to test the claims).
c_type_add_unchecked(dest, new) ==
  [ ret |-> TRUE, dest |-> dest \cup new ]

\* c_type_add( &dest, new, loc ): the return value and the new *dest.
c_type_add(dest, new) ==
  IF is_long_int(dest) /\ T_LONG_LONG \cap dest = T_NONE /\ new = T_LONG
    THEN [ ret |-> TRUE, dest |-> (dest \ T_LONG) \cup T_LONG_LONG ]
  ELSE IF c_type_conflict(dest, new)
    THEN [ ret |-> FALSE, dest |-> dest ]
  ELSE [ ret |-> TRUE, dest |-> dest \cup new ]

\* The type keywords a declaration is made of.
TypeMenu ==
  { T_CHAR, T_SHORT, T_INT, T_LONG, T_LONG_LONG, T_SIGNED, T_UNSIGNED,
    T_FLOAT, T_DOUBLE, T_EXTERN, T_STATIC, T_TYPEDEF, T_CONSTEXPR,
    T_NORETURN, T_CONST, T_VOLATILE, T_REFERENCE }

\* One type keyword is parsed and added to the type so far.
TypeAdd(new) ==
  /\ pc \in { "idle", "type" }
  /\ Cardinality(dest_type) < MaxTypeBits
  /\ LET r == c_type_add(dest_type, new) IN
       /\ dest_type' = r.dest
       /\ add_ret' = r.ret
  /\ new_type' = new
  /\ pc' = "type"
  /\ UNCHANGED << auxVars, optVars, astVars, printVars, graphVars >>

\* The declaration is over; the next one starts from no type.
TypeDone ==
  /\ pc = "type"
  /\ dest_type' = T_NONE
  /\ new_type' = T_NONE
  /\ add_ret' = TRUE
  /\ pc' = "idle"
  /\ UNCHANGED << auxVars, optVars, astVars, printVars, graphVars >>

NextType ==
  \/ \E new \in TypeMenu : TypeAdd(new)
  \/ TypeDone

SpecType == InitCommon /\ [][NextType]_vars

\* C5: the sector masks of a type identifier are pairwise disjoint, so the
\* parts of every accumulated type under two distinct masks share no bit,
\* and so do the parts of every 64-bit value.
C5_SectorsDisjoint ==
  /\ \A i, j \in 1..Len(SectorMasks) :
       i # j => dest_type \cap SectorMasks[i] \cap SectorMasks[j] = T_NONE
  /\ \A b \in 0..63 : \A i, j \in 1..Len(SectorMasks) :
       i # j => { b } \cap SectorMasks[i] \cap SectorMasks[j] = T_NONE

C5_Witness ==
  /\ dest_type \cap T_MASK_TYPE # T_NONE
  /\ dest_type \cap T_MASK_STORAGE # T_NONE
  /\ dest_type \cap T_MASK_QUALIFIER # T_NONE

\* The sector (1..5, as in SectorMasks) of the section a constant is
\* declared in.
SectorOfSection(k) == IF k <= 2 THEN k ELSE k - 1

\* C6: every named type constant is a single bit, no two share a bit, and
\* each lies in the sector mask of its own section and in no other; hence
\* the part of an accumulated type under a sector mask is exactly the
\* keywords of that sector that were added.
C6_ConstantsSingleBit ==
  /\ \A p \in TypeConstIdx :
       /\ Cardinality(TypeConst(p)) = 1
       /\ \A q \in TypeConstIdx : p # q => TypeConst(p) \cap TypeConst(q) = T_NONE
       /\ \A m \in 1..Len(SectorMasks) :
            IF m = SectorOfSection(p[1])
              THEN TypeConst(p) \subseteq SectorMasks[m]
              ELSE TypeConst(p) \cap SectorMasks[m] = T_NONE
  /\ \A p \in TypeConstIdx :
       TypeConst(p) \subseteq dest_type <=>
         TypeConst(p) \subseteq
           dest_type \cap SectorMasks[SectorOfSection(p[1])]

C6_Witness ==
  /\ T_CONSTEXPR \subseteq dest_type
  /\ T_NORETURN \subseteq dest_type
  /\ T_REFERENCE \subseteq dest_type

GraphTokens ==
  { "#", "##", "[", "[[", "]", "]]", "{", "}", "\\", "^", "^=", "|", "|=",
    "||", "~", "(", "*" }

\* A token is about to be printed.
GraphToken(tok) ==
  /\ pc = "idle"
  /\ token' = tok
  /\ graph_ret' = graph_token_c(tok)
  /\ pc' = "graph"
  /\ UNCHANGED << auxVars, typeVars, optVars, astVars, printVars >>

\* The token was written.
GraphDone ==
  /\ pc = "graph"
  /\ token' = ""
  /\ graph_ret' = ""
  /\ pc' = "idle"
  /\ UNCHANGED << auxVars, typeVars, optVars, astVars, printVars >>

NextGraph ==
  \/ \E lang \in AllLangs : SetLang(lang)
  \/ \E b \in BOOLEAN : SetAltTokens(b)
  \/ \E gr \in AllGraphs : SetGraph(gr)
  \/ \E tok \in GraphTokens : GraphToken(tok)
  \/ GraphDone

SpecGraph == InitCommon /\ [][NextGraph]_vars

Digraphs == { "%:%:", "%:", "<:<:", "<:", ":>:>", ":>", "<%", "%>" }

IsTrigraph(t) == Len(t) >= 3 /\ SubSeq(t, 1, 2) = "??"

\* C10: graph_token_c returns its token unchanged unless alternative tokens
\* are off and either digraphs are on in C95 or later or trigraphs are on
\* in C89 up to C++14; only then are the tokens starting with one of
\* [ ] { } # (for trigraphs also \ ^ | ~) respelt, so no trigraph comes
\* out in C++17 or later or in K&R C and no digraph before C95.
C10_GraphOnlyWhenAllowed ==
  pc = "graph" =>
    /\ ~( /\ ~opt_alt_tokens
          /\ \/ opt_graph = C_GRAPH_DI /\ opt_lang >= LANG_C_95
             \/ opt_graph = C_GRAPH_TRI /\ opt_lang >= LANG_C_89
                                        /\ opt_lang <= LANG_CPP_14 )
         => graph_ret = token
    /\ IsTrigraph(graph_ret) =>
         opt_lang # LANG_C_KNR /\ opt_lang < LANG_CPP_17
    /\ graph_ret \in Digraphs => opt_lang >= LANG_C_95
    /\ graph_ret # token =>
         /\ SubSeq(token, 1, 1) \in
              { "#", "[", "]", "{", "}", "\\", "^", "|", "~" }
         /\ opt_graph = C_GRAPH_DI =>
              SubSeq(token, 1, 1) \in { "#", "[", "]", "{", "}" }

\* A trigraph was substituted in C++14, the last dialect to have them.
C10_Witness ==
  /\ pc = "graph"
  /\ token = "[["
  /\ graph_ret = "??(??("
  /\ opt_lang = LANG_CPP_14


(***************************************************************************)
(* SpecTail: function-like declarations with function-tail qualifiers.     *)
(***************************************************************************)
MaxTailQuals == 2

\* The type ids g_print_ast prints after the parameters.
TailIds ==
  { "TS_CONST", "TS_VOLATILE", "TS_REFERENCE", "TS_RVALUE_REFERENCE",
    "TS_NOEXCEPT", "TS_THROW", "TS_OVERRIDE", "TS_FINAL", "TS_PURE_VIRTUAL",
    "TS_DEFAULT", "TS_DELETE" }

\* Combinations no declaration has.
TailExclusive ==
  { { "TS_REFERENCE", "TS_RVALUE_REFERENCE" }, { "TS_NOEXCEPT", "TS_THROW" },
    { "TS_DEFAULT", "TS_DELETE" }, { "TS_PURE_VIRTUAL", "TS_DEFAULT" },
    { "TS_PURE_VIRTUAL", "TS_DELETE" } }

TailTypes ==
  { C_TYPE_LIT(TNONE, q, TNONE) :
      q \in { qs \in SUBSET (TailIds \cup { "TS_VIRTUAL" }) :
                /\ Cardinality(qs) <= MaxTailQuals
                /\ \A ex \in TailExclusive : ~(ex \subseteq qs) } }

\* Function-like nodes with a return type, still without it.
TailFuncNodes ==
  { [c_ast_new(kind, type, << >>, 0) EXCEPT
       !.oper_token = IF kind = "K_OPERATOR" THEN "!" ELSE ""] :
      kind \in { "K_FUNCTION", "K_OPERATOR", "K_USER_DEF_LITERAL" },
      type \in TailTypes }

\* Function-like nodes without a return type.  A constructor is never
\* virtual, cv- or ref-qualified; a destructor is never cv- or ref-qualified
\* and has no parameters.
CtorIds == { "TS_NOEXCEPT", "TS_THROW", "TS_DEFAULT", "TS_DELETE" }

DtorIds == CtorIds \cup { "TS_OVERRIDE", "TS_FINAL", "TS_PURE_VIRTUAL",
                          "TS_VIRTUAL" }

TailCtorNodes ==
  { c_ast_new("K_CONSTRUCTOR", type, << "C" >>, 0) :
      type \in { t \in TailTypes : t.stids \subseteq CtorIds } }

TailDtorNodes ==
  { c_ast_new("K_DESTRUCTOR", type, << "C" >>, 0) :
      type \in { t \in TailTypes : t.stids \subseteq DtorIds } }

TailConvNodes ==
  { c_ast_new("K_USER_DEF_CONVERSION", type, << >>, 0) : type \in TailTypes }

\* A constructor or destructor is declared: a root of its own, named after
\* its class.
StartFunc(node, plist) ==
  /\ pc = "idle"
  /\ LegalInLang(node.kind, opt_lang)
  /\ LegalParams(plist, opt_lang)
  /\ ast' = << [node EXCEPT !.param_ast_list = ParamRoots(plist, 1)] >>
              \o ParamArena(plist, 1)
  /\ root' = 1
  /\ pc' = "build"
  /\ UNCHANGED << auxVars, typeVars, optVars, printVars, graphVars >>

NextTail ==
  \/ \E lang \in { LANG_CPP_03, LANG_CPP_11 } : SetLang(lang)
  \/ StartDecl(c_ast_new("K_BUILTIN", T_INT_LIT, << "f" >>, 0))
  \/ \E node \in TailFuncNodes, plist \in { << >>, << P_CHAR >> } :
       Wrap(node, plist)
  \/ \E node \in TailConvNodes : Wrap(node, << >>)
  \/ \E node \in TailCtorNodes : StartFunc(node, << P_INT_X, P_INT_Y >>)
  \/ \E node \in TailDtorNodes : StartFunc(node, << >>)
  \/ Gibberish({ "C_GIB_DECL" })
  \/ EndCommand

SpecTail == InitCommon /\ [][NextTail]_vars

\* How a tail qualifier is spelt after the parameters.
TailSpelling(q) ==
  CASE q = "TS_CONST" -> { "const" }
    [] q = "TS_VOLATILE" -> { "volatile" }
    [] q = "TS_REFERENCE" -> { "&" }
    [] q = "TS_RVALUE_REFERENCE" -> { "&&" }
    [] q \in { "TS_NOEXCEPT", "TS_THROW" } -> { "noexcept", "throw()" }
    [] q = "TS_OVERRIDE" -> { "override" }
    [] q = "TS_FINAL" -> { "final" }
    [] q = "TS_PURE_VIRTUAL" -> { "= 0" }
    [] q = "TS_DEFAULT" -> { "= default" }
    [] q = "TS_DELETE" -> { "= delete" }

CloseParamsIndex(toks, n) ==
  CHOOSE i \in 1..Len(toks) : toks[i].n = n /\ toks[i].r = "close_params"

PrintedInTail(toks, n, q) ==
  \E i \in 1..Len(toks) :
    /\ i > CloseParamsIndex(toks, n)
    /\ toks[i].n = n
    /\ toks[i].t \in TailSpelling(q)

NotInLeadingType(toks, n) ==
  \A i \in 1..Len(toks) :
    toks[i].n = n /\ i < CloseParamsIndex(toks, n) =>
      toks[i].t \notin { TidName(q) : q \in TailIds }
                         \cup UNION { TailSpelling(q) : q \in TailIds }

\* C8 (as the documentation states it): for every function, operator,
\* constructor, destructor, user-defined conversion or user-defined literal,
\* each function-tail qualifier set in the node's type is printed after the
\* parameter list and none of them is printed in the leading type.  The code
\* drops `= 0` when override or final is set too (and override when final
\* is).
C8_TailQualifiersPrinted ==
  Printed /\ ast[root].kind \in K_TAIL_KINDS =>
    /\ \A q \in ast[root].type.stids \cap TailIds :
         PrintedInTail(gout, root, q)
    /\ NotInLeadingType(gout, root)

C8_FailingInput ==
  /\ Printed
  /\ ast[root].type.stids = { "TS_OVERRIDE", "TS_PURE_VIRTUAL" }
  /\ TextOut = "int f() override"

(***************************************************************************)
(* SpecBits: declarations of the kinds that can be bit fields.             *)
(***************************************************************************)
MaxBitWidth == 3

BitFieldTypes ==
  { [ kind |-> "K_BUILTIN", type |-> T_INT_LIT ],
    [ kind |-> "K_BUILTIN",
      type |-> C_TYPE_LIT({ "TB_INT" }, { "TS_CONST" }, TNONE) ],
    [ kind |-> "K_ENUM_CLASS_STRUCT_UNION",
      type |-> C_TYPE_LIT({ "TB_ENUM" }, TNONE, TNONE) ],
    [ kind |-> "K_TYPEDEF",
      type |-> C_TYPE_LIT({ "TB_TYPEDEF" }, TNONE, TNONE) ],
    [ kind |-> "K_TYPEDEF",
      type |-> C_TYPE_LIT({ "TB_TYPEDEF" }, { "TS_CONST" }, TNONE) ] }

BitFieldNodes ==
  { [c_ast_new(kt.kind, kt.type, << "x" >>, 0) EXCEPT
       !.bit_width = w,
       !.ecsu_sname = IF kt.kind = "K_ENUM_CLASS_STRUCT_UNION"
                        THEN << "E" >> ELSE << >>,
       !.for_sname = IF kt.kind = "K_TYPEDEF" THEN << "T" >> ELSE << >>] :
      kt \in BitFieldTypes, w \in 0..MaxBitWidth }

NextBits ==
  \/ \E lang \in { LANG_C_99, LANG_CPP_11 } : SetLang(lang)
  \/ \E b \in BOOLEAN : SetEastConst(b)
  \/ \E leaf \in BitFieldNodes : StartDecl(leaf)
  \/ \E flags \in { { "C_GIB_DECL" }, { "C_GIB_DECL", "C_GIB_OMIT_TYPE" } } :
       Gibberish(flags)
  \/ EndCommand

SpecBits == InitCommon /\ [][NextBits]_vars

\* ` : W` right after the name of node n, and nowhere else.
WidthAfterName(toks, n, w) ==
  \E i \in 1..Len(toks) :
    /\ toks[i].n = n /\ toks[i].r = "name"
    /\ i + 2 = Len(toks)
    /\ toks[i + 1].t \o toks[i + 2].t = " : " \o ToString(w)

NoWidth(toks) == \A i \in 1..Len(toks) : toks[i].r # "width"

\* C9 (as the documentation states it): for every node of a kind that can
\* be a bit field (builtin, enum, typedef) with a bit-field width greater
\* than 0 the gibberish printer prints ` : W` after the node's name; for
\* width 0 it prints no bit-field suffix.  The code prints none for an
\* enumeration.
C9_BitWidthPrinted ==
  Printed /\ ast[root].kind \in K_ANY_BIT_FIELD =>
    IF ast[root].bit_width > 0
      THEN WidthAfterName(gout, root, ast[root].bit_width)
      ELSE NoWidth(gout)

C9_FailingInput ==
  /\ Printed
  /\ ast[root].kind = "K_ENUM_CLASS_STRUCT_UNION"
  /\ ast[root].bit_width = 3
  /\ TextOut = "enum E x"



(***************************************************************************)
(* SpecRound: declarations are printed as gibberish and as English.        *)
(***************************************************************************)
RoundLeafNodes ==
  { [c_ast_new("K_BUILTIN", T_INT_LIT, << "x" >>, 0) EXCEPT !.bit_width = w] :
      w \in 0..MaxBitWidth }
    \cup { [c_ast_new("K_TYPEDEF", C_TYPE_LIT({ "TB_TYPEDEF" }, TNONE, TNONE),
                      << "x" >>, 0) EXCEPT !.for_sname = << "T" >>] }

RoundNodes ==
  { c_ast_new("K_POINTER", C_TYPE_NONE, << >>, 0),
    c_ast_new("K_POINTER", C_TYPE_LIT(TNONE, { "TS_CONST" }, TNONE), << >>, 0),
    c_ast_new("K_REFERENCE", C_TYPE_NONE, << >>, 0),
    [c_ast_new("K_ARRAY", C_TYPE_NONE, << >>, 0) EXCEPT !.size = 3] }

NextRound ==
  \/ \E leaf \in RoundLeafNodes : StartDecl(leaf)
  \/ \E node \in RoundNodes : Wrap(node, << >>)
  \/ \E plist \in { << >>, << P_INT_X, P_INT_Y >>, << P_PTR_S, P_VARIADIC >> } :
       Wrap(c_ast_new("K_FUNCTION", C_TYPE_NONE, << >>, 0), plist)
  \/ Gibberish({ "C_GIB_DECL" })
  \/ English
  \/ EndCommand

SpecRound == InitCommon /\ [][NextRound]_vars

\* Declarations that differ from the present one in one place: another
\* bit-field width, or another qualifier on the root.
Variants(a, n) ==
  ( { [a EXCEPT ![n].bit_width = w] : w \in 0..MaxBitWidth }
      \cup { [a EXCEPT ![n].type.stids = q] :
               q \in { TNONE, { "TS_CONST" } } } )
    \ { a }

LegalVariant(v, n) ==
  /\ LegalBitField(v[n], opt_lang)
  /\ v[n].bit_width > 0 => v[n].kind \in { "K_BUILTIN", "K_TYPEDEF" }
  /\ v[n].type.stids # TNONE =>
       v[n].kind \in { "K_BUILTIN", "K_TYPEDEF", "K_POINTER" }

\* C3 (as the documentation states it): printing a declaration and parsing
\* the text back gives a structurally equal AST, for gibberish and for
\* English; so neither printer gives two structurally different
\* declarations of the same name the same text.  The English printer does:
\* it prints no bit-field width.
C3_PrintersInjective ==
  /\ Printed =>
       \A v \in Variants(ast, root) :
         LegalVariant(v, root) =>
           Text(c_ast_gibberish_impl(v, root, gib_flags, FALSE).out) # TextOut
  /\ Explained =>
       \A v \in Variants(ast, root) :
         LegalVariant(v, root) => c_ast_english(v, root) # eout

C3_FailingInput ==
  /\ Explained
  /\ ast[root].bit_width = 3
  /\ eout = "int"



(***************************************************************************)
(* The AST builder (c_ast_util.h).  While a declarator is parsed, the      *)
(* partial AST decl_ast is a chain of declarator nodes that ends in a      *)
(* K_PLACEHOLDER standing for the type specifier, whose AST, type_ast, is  *)
(* node 1 of the arena.  decl_ast is `root`.                               *)
(***************************************************************************)
TYPE_AST == 1

\* c_ast_find_kind_any( ast, C_VISIT_DOWN, kinds ): 0 stands for NULL.
RECURSIVE c_ast_find_kind_any_down(_, _, _)
c_ast_find_kind_any_down(a, n, kinds) ==
  IF n = 0 THEN 0
  ELSE IF a[n].kind \in kinds THEN n
  ELSE IF c_ast_is_parent(a, n)
    THEN c_ast_find_kind_any_down(a, a[n].of_ast, kinds)
  ELSE 0

\* Put node `id` where the placeholder `ph` is and the placeholder under
\* it; a node that replaces the whole partial AST takes its name.
c_ast_graft(a, ph, node) ==
  LET id == Len(a) + 1
      parent == a[ph].parent_ast
      a1 == [a EXCEPT ![ph].parent_ast = id, ![ph].sname = << >>]
      a2 == IF parent # 0 THEN [a1 EXCEPT ![parent].of_ast = id] ELSE a1
  IN  Append(a2, [node EXCEPT !.of_ast = ph, !.parent_ast = parent,
                              !.sname = a[ph].sname])

\* c_ast_add_array( ast, array_ast ): the arena and the AST to go on with.
c_ast_add_array(a, n, array_ast) ==
  LET ph == c_ast_find_kind_any_down(a, n, { "K_PLACEHOLDER" })
      a1 == c_ast_graft(a, ph, array_ast)
  IN  [ ast |-> a1, ret |-> IF a[ph].parent_ast = 0 THEN Len(a1) ELSE n ]

\* c_ast_add_func( ast, ret_ast, func_ast ): the function takes the place
\* of the placeholder and ret_ast becomes its return type.
c_ast_add_func(a, n, ret_ast, func_ast, plist) ==
  LET ph == c_ast_find_kind_any_down(a, n, { "K_PLACEHOLDER" })
      id == Len(a) + 1
      parent == a[ph].parent_ast
      a1 == [a EXCEPT ![ret_ast].parent_ast = id, ![ph].parent_ast = 0,
                      ![ph].sname = << >>]
      a2 == IF parent # 0 THEN [a1 EXCEPT ![parent].of_ast = id] ELSE a1
      a3 == Append(a2, [func_ast EXCEPT
                          !.of_ast = ret_ast, !.parent_ast = parent,
                          !.sname = a[ph].sname,
                          !.param_ast_list = ParamRoots(plist, id)])
              \o ParamArena(plist, id)
  IN  [ ast |-> a3, ret |-> IF parent = 0 THEN id ELSE n ]

\* A patch that leaves the placeholder in (used to test the claims).
c_ast_patch_placeholder_not(a, type_ast, decl_ast) ==
  [ ast |-> a, ret |-> decl_ast ]

\* c_ast_patch_placeholder( type_ast, decl_ast ): the arena and the final
\* AST.
c_ast_patch_placeholder(a, type_ast, decl_ast) ==
  LET ph == c_ast_find_kind_any_down(a, decl_ast, { "K_PLACEHOLDER" }) IN
  IF decl_ast = 0 THEN [ ast |-> a, ret |-> type_ast ]
  ELSE IF a[type_ast].parent_ast # 0 \/ ph = 0
    THEN [ ast |-> a, ret |-> decl_ast ]
  ELSE IF Depth(a, type_ast) < Depth(a, decl_ast)
    THEN [ ast |-> [a EXCEPT ![a[ph].parent_ast].of_ast = type_ast,
                             ![type_ast].parent_ast = a[ph].parent_ast,
                             ![ph].parent_ast = 0],
           ret |-> decl_ast ]
  ELSE \* decl_ast is nothing but the placeholder: type_ast is the final AST
       [ ast |-> [a EXCEPT ![type_ast].sname = a[decl_ast].sname,
                           ![decl_ast].sname = << >>],
         ret |-> type_ast ]

\* A declaration starts: its type specifier is parsed and its declarator is
\* so far the declared name alone.
BeginDeclarator(leaf) ==
  /\ pc = "idle"
  /\ ast' = << [leaf EXCEPT !.sname = << >>],
               c_ast_new("K_PLACEHOLDER", C_TYPE_NONE, leaf.sname, 0) >>
  /\ root' = 2
  /\ pc' = "decl"
  /\ UNCHANGED << auxVars, typeVars, optVars, printVars, graphVars >>

Innermost == c_ast_find_kind_any_down(ast, root, { "K_PLACEHOLDER" })

CanGraft(kind) ==
  /\ pc = "decl"
  /\ Innermost # 0
  /\ Depth(ast, root) < MaxDepth
  /\ LegalInLang(kind, opt_lang)
  /\ ast[Innermost].parent_ast # 0 =>
       LegalOver(ast[ast[Innermost].parent_ast].kind, kind)

\* A pointer, reference or pointer to member is added to the declarator.
AddPointer(node) ==
  /\ CanGraft(node.kind)
  /\ ast' = c_ast_graft(ast, Innermost, node)
  /\ root' = IF ast[Innermost].parent_ast = 0 THEN Len(ast) + 1 ELSE root
  /\ UNCHANGED << auxVars, typeVars, optVars, printVars, graphVars, pc >>

AddArray(array_ast) ==
  /\ CanGraft(array_ast.kind)
  /\ LET r == c_ast_add_array(ast, root, array_ast) IN
       ast' = r.ast /\ root' = r.ret
  /\ UNCHANGED << auxVars, typeVars, optVars, printVars, graphVars, pc >>

AddFunc(func_ast, plist) ==
  /\ CanGraft(func_ast.kind)
  /\ LegalParams(plist, opt_lang)
  /\ LET r == c_ast_add_func(ast, root, TYPE_AST, func_ast, plist) IN
       ast' = r.ast /\ root' = r.ret
  /\ UNCHANGED << auxVars, typeVars, optVars, printVars, graphVars, pc >>

\* The declarator is over: the type is patched in and the declaration is
\* complete.
PatchPlaceholder ==
  /\ pc = "decl"
  /\ LET r == c_ast_patch_placeholder(ast, TYPE_AST, root) IN
       ast' = r.ast /\ root' = r.ret
  /\ pc' = "build"
  /\ UNCHANGED << auxVars, typeVars, optVars, printVars, graphVars >>

NextBuild ==
  \/ \E leaf \in LeafNodes : BeginDeclarator(leaf)
  \/ \E node \in PointerNodes : AddPointer(node)
  \/ \E array_ast \in ArrayNodes : AddArray(array_ast)
  \/ \E func_ast \in FuncNodes, plist \in ParamListsC : AddFunc(func_ast, plist)
  \/ PatchPlaceholder
  \/ Gibberish({ "C_GIB_DECL" })
  \/ English
  \/ EndCommand

SpecBuild == InitCommon /\ [][NextBuild]_vars

\* The nodes of the AST with root n: the chain down from n and the ASTs of
\* the parameters.
RECURSIVE NodesOf(_, _)
NodesOf(a, n) ==
  IF n = 0 THEN {}
  ELSE { n } \cup NodesOf(a, a[n].of_ast)
         \cup UNION { NodesOf(a, a[n].param_ast_list[i]) :
                        i \in 1..Len(a[n].param_ast_list) }

HasPlaceholder(a, n) == \E m \in NodesOf(a, n) : a[m].kind = "K_PLACEHOLDER"

EastQuals == SUBSET TS_CV

EastLeafNodes ==
  { [c_ast_new("K_ENUM_CLASS_STRUCT_UNION", C_TYPE_LIT({ b }, q, TNONE),
               << "x" >>, 0) EXCEPT !.ecsu_sname = << "S" >>] :
      b \in { "TB_ENUM", "TB_STRUCT", "TB_UNION" }, q \in EastQuals }
    \cup
  { [c_ast_new("K_TYPEDEF", C_TYPE_LIT({ "TB_TYPEDEF" }, q, TNONE),
               << "x" >>, 0) EXCEPT !.for_sname = << "T" >>] :
      q \in EastQuals }

EastPointerNodes ==
  { c_ast_new("K_POINTER", C_TYPE_LIT(TNONE, q, TNONE), << >>, 0) :
      q \in { TNONE, { "TS_CONST" } } }

NextEast ==
  \/ \E lang \in { LANG_C_99, LANG_CPP_11 } : SetLang(lang)
  \/ \E b \in BOOLEAN : SetEastConst(b)
  \/ \E leaf \in EastLeafNodes : StartDecl(leaf)
  \/ \E node \in EastPointerNodes : Wrap(node, << >>)
  \/ Gibberish({ "C_GIB_DECL" })
  \/ EndCommand

SpecEast == InitCommon /\ [][NextEast]_vars

\* The positions of the tokens of node n that spell a cv-qualifier.
CvTokens(toks, n) ==
  { i \in 1..Len(toks) :
      toks[i].n = n /\ toks[i].t \in { "const", "volatile" } }

\* The positions of the tokens of leaf n that spell its type: the type
\* keyword and tag name of an enum, struct or union, the name of a typedef.
TypeTokens(toks, n) ==
  { i \in 1..Len(toks) :
      /\ toks[i].n = n
      /\ \/ toks[i].r \in { "tag", "tdef" }
         \/ toks[i].t \in { "enum", "struct", "union", "class" } }

\* Every cv-qualifier of leaf n is printed exactly once.
CvOnce(toks, a, n) ==
  /\ \A q \in a[n].type.stids \cap TS_CV :
       \E i \in CvTokens(toks, n) : toks[i].t = TidName(q)
  /\ Cardinality(CvTokens(toks, n)) = Cardinality(a[n].type.stids \cap TS_CV)

\* C11: with east-const on, the const/volatile qualifiers of an enum,
\* struct or union node are printed after the type keyword and tag name and
\* those of a typedef reference after the typedef's name; with east-const
\* off they are printed before the type token; in neither mode is a
\* qualifier printed twice or dropped.
C11_EastConst ==
  Printed /\ ast[1].kind \in { "K_ENUM_CLASS_STRUCT_UNION", "K_TYPEDEF" } =>
    /\ CvOnce(gout, ast, 1)
    /\ TypeTokens(gout, 1) # {}
    /\ \A i \in CvTokens(gout, 1) : \A j \in TypeTokens(gout, 1) :
         IF opt_east_const THEN j < i ELSE i < j
    /\ \A i \in CvTokens(gout, 1) : \A j \in 1..Len(gout) :
         gout[j].r = "name" => i < j

C11_Witness ==
  /\ Printed
  /\ opt_east_const
  /\ TextOut = "struct S const volatile *const x"

C11_WitnessTypedef ==
  /\ Printed
  /\ opt_east_const
  /\ TextOut = "T const x"

C11_WitnessWest ==
  /\ Printed
  /\ ~opt_east_const
  /\ TextOut = "const volatile struct S x"

(***************************************************************************)
(* c_typedef_gibberish (gibberish.c).  A typedef is an AST together with   *)
(* the languages it was declared in (tdef_lang_ids).  The declared name is *)
(* a scoped name: node.sname holds the identifiers and node.sname_types    *)
(* the type of each enclosing scope.  SpecTypedef builds declarations,     *)
(* turns them into typedefs and prints them as typedef or using.           *)
(***************************************************************************)
MaxScopes == 2

TB_SCOPE_LIT == C_TYPE_LIT({ "TB_SCOPE" }, TNONE, TNONE)

TB_NAMESPACE_LIT == C_TYPE_LIT({ "TB_NAMESPACE" }, TNONE, TNONE)

c_lang_is_c(lang_ids) == \E l \in lang_ids : l < LANG_CPP_98

c_lang_is_cpp(lang_ids) == \E l \in lang_ids : l >= LANG_CPP_98

c_sname_first_type(types) == types[1]

c_sname_scope_type(types) == types[Len(types)]

RECURSIVE c_ast_find_name_down(_, _)
c_ast_find_name_down(a, n) ==
  IF n = 0 THEN 0
  ELSE IF ~c_sname_empty(a[n].sname) THEN n
  ELSE IF c_ast_is_parent(a, n) THEN c_ast_find_name_down(a, a[n].of_ast)
  ELSE 0

\* TB_SCOPE, a scope of unknown type, is printed as a namespace.
ScopeAsNamespace(type) ==
  IF type.btids = { "TB_SCOPE" }
    THEN [type EXCEPT !.btids = { "TB_NAMESPACE" }] ELSE type

\* "%s %s { "
ScopeOpenToks(type, name) ==
  WordToks(c_type_name_c(type), 0, "scope_kw")
    \o << Tok(" ", 0, "sp"), Tok(name, 0, "scope_name"),
          Tok(" { ", 0, "open_brace") >>

RECURSIVE ScopeOpensEach(_, _, _)
ScopeOpensEach(sname, types, i) ==
  IF i > Len(types) THEN << >>
  ELSE ScopeOpenToks(ScopeAsNamespace(types[i]), sname[i])
         \o ScopeOpensEach(sname, types, i + 1)

RECURSIVE CloseBraces(_)
CloseBraces(k) ==
  IF k = 0 THEN << >>
  ELSE << Tok(" }", 0, "close_brace") >> \o CloseBraces(k - 1)

\* The condition under which the scopes are opened by one declaration.
NestedFormAllowed(first_type, lang) ==
  \/ first_type.btids # { "TB_NAMESPACE" }
  \/ lang >= LANG_CPP_17
  \/ lang < LANG_CPP_98

\* The scopes a scoped typedef is wrapped in: the tokens that open them, the
\* number of closing braces to print and the final value of scope_type.
TypedefScopes(sname, types) ==
  IF Len(sname) > 1
    THEN LET first == c_sname_first_type(types) IN
         IF NestedFormAllowed(first, opt_lang)
           THEN LET scope_type ==
                      IF "TS_INLINE" \in first.stids THEN first
                      ELSE [ScopeAsNamespace(c_sname_scope_type(types)) EXCEPT
                              !.stids = @ \ { "TS_INLINE" }]
                IN  [ open |-> ScopeOpenToks(scope_type,
                                             c_sname_scope_name(sname)),
                      braces |-> 1, scope_type |-> scope_type ]
           ELSE [ open |-> ScopeOpensEach(sname, types, 1),
                  braces |-> c_sname_count(sname) - 1,
                  scope_type |-> ScopeAsNamespace(types[Len(types)]) ]
    ELSE [ open |-> << >>, braces |-> 0, scope_type |-> C_TYPE_NONE ]

TypedefDeclFlags(printing_using) ==
  IF printing_using THEN { "C_GIB_USING" } ELSE { "C_GIB_TYPEDEF" }

\* A variant that never prints the final semicolon.
TypedefEndToks_none(scope_type) == << Tok("\n", 0, "nl") >>

\* The end of the output: `;` when asked for, and the newline.
TypedefEndToks(scope_type) ==
  (IF opt_semicolon /\ scope_type.btids # { "TB_NAMESPACE" }
     THEN << Tok(";", 0, "semi") >> ELSE << >>)
    \o << Tok("\n", 0, "nl") >>

c_typedef_gibberish(a, n, lang_ids, flags) ==
  LET name_ast == c_ast_find_name_down(a, n)
      sname == IF name_ast = 0 THEN << >> ELSE a[name_ast].sname
      types == IF name_ast = 0 THEN << >> ELSE a[name_ast].sname_types
      sc == TypedefScopes(sname, types)
      is_ecsu == a[n].kind = "K_ENUM_CLASS_STRUCT_UNION"
      printing_typedef ==
        /\ "C_GIB_TYPEDEF" \in flags
        /\ \/ ~is_ecsu
           \/ c_lang_is_c(lang_ids)
           \/ opt_lang < LANG_CPP_98 /\ ~c_lang_is_cpp(lang_ids)
      printing_using == "C_GIB_USING" \in flags /\ ~is_ecsu
      head == IF printing_typedef
                THEN << Tok("typedef", 0, "kw"), Tok(" ", 0, "sp") >>
              ELSE IF printing_using
                THEN << Tok("using", 0, "kw"), Tok(" ", 0, "sp"),
                        Tok(c_sname_local_name(sname), 0, "alias"),
                        Tok(" = ", 0, "sp") >>
              ELSE << >>
      g == g_print_ast(g_init(TypedefDeclFlags(printing_using),
                              printing_typedef, sc.open \o head, FALSE), a, n)
      tail == IF sc.braces > 0
                THEN << Tok(";", 0, "semi_in") >> \o CloseBraces(sc.braces)
                ELSE << >>
  IN  [g EXCEPT !.out = @ \o tail \o TypedefEndToks(sc.scope_type)]

\* The types of the enclosing scopes of a typedef's name: namespaces (the
\* first possibly inline), classes and structs, and scopes of unknown type;
\* a namespace is never declared inside a class or struct.
ScopeTypeMenu ==
  { TB_NAMESPACE_LIT, TB_SCOPE_LIT,
    C_TYPE_LIT({ "TB_NAMESPACE" }, { "TS_INLINE" }, TNONE),
    C_TYPE_LIT({ "TB_STRUCT" }, TNONE, TNONE) }

LegalScopeTypes(types) ==
  /\ \A i \in 1..Len(types) : types[i] \in ScopeTypeMenu
  /\ \A i \in 2..Len(types) :
       /\ "TS_INLINE" \notin types[i].stids
       /\ types[i - 1].btids = { "TB_STRUCT" }
            => types[i].btids # { "TB_NAMESPACE" }

ScopeNames == << "A", "B", "C" >>

TypedefLangIds == { { LANG_C_99 }, { LANG_CPP_11 }, { LANG_C_99, LANG_CPP_11 } }

\* The declaration becomes a typedef: its name gets `k` enclosing scopes.
DefineType(types, lang_ids) ==
  /\ pc = "build"
  /\ c_ast_find_name_down(ast, root) = root
  /\ LegalScopeTypes(types)
  /\ ast' = [ast EXCEPT
               ![root].sname = SubSeq(ScopeNames, 1, Len(types)) \o @,
               ![root].sname_types = types]
  /\ tdef_lang_ids' = lang_ids
  /\ pc' = "tdef"
  /\ UNCHANGED << sessVars, cliVars, kindVars, distVars, typeVars, optVars, root, printVars, graphVars >>

\* The show command: print the typedef as a typedef or as a using.
ShowTypedef(flags) ==
  /\ pc = "tdef"
  /\ "C_GIB_USING" \in flags => opt_lang >= LANG_CPP_11
  /\ LET g == c_typedef_gibberish(ast, root, tdef_lang_ids, flags) IN
       /\ gout' = g.out
       /\ gfailed' = g.failed
  /\ gib_flags' = flags
  /\ pc' = "printed"
  /\ UNCHANGED << auxVars, typeVars, optVars, astVars, graphVars, eout >>

SetSemicolon(b) ==
  /\ pc = "idle"
  /\ opt_semicolon' = b
  /\ UNCHANGED << auxVars, typeVars, opt_lang, opt_alt_tokens,
                  opt_east_const, opt_graph, astVars, printVars, graphVars,
                  pc >>

P_CHAR_C == << c_ast_new("K_BUILTIN", T_CHAR_LIT, << "c" >>, 0) >>

TypedefLeafNodes ==
  { c_ast_new("K_BUILTIN", T_INT_LIT, << "I" >>, 0),
    [c_ast_new("K_ENUM_CLASS_STRUCT_UNION",
               C_TYPE_LIT({ "TB_STRUCT" }, TNONE, TNONE), << "S" >>, 0)
       EXCEPT !.ecsu_sname = << "S" >>] }

TypedefWrapNodes ==
  { c_ast_new("K_POINTER", C_TYPE_NONE, << >>, 0),
    [c_ast_new("K_ARRAY", C_TYPE_NONE, << >>, 0) EXCEPT !.size = 3] }

TypedefFuncNode == c_ast_new("K_FUNCTION", C_TYPE_NONE, << >>, 0)

NextTypedef ==
  \/ \E lang \in { LANG_C_99, LANG_CPP_11, LANG_CPP_14, LANG_CPP_17 } :
       SetLang(lang)
  \/ \E b \in BOOLEAN : SetSemicolon(b)
  \/ \E leaf \in TypedefLeafNodes : StartDecl(leaf)
  \/ \E node \in TypedefWrapNodes : Wrap(node, << >>)
  \/ \E plist \in { << >>, << P_CHAR_C >>, << P_INT_X, P_INT_Y >> } :
       Wrap(TypedefFuncNode, plist)
  \/ \E k \in 0..MaxScopes : \E types \in [1..k -> ScopeTypeMenu] :
       \E lang_ids \in TypedefLangIds : DefineType(types, lang_ids)
  \/ \E flags \in { { "C_GIB_TYPEDEF" }, { "C_GIB_USING" } } :
       ShowTypedef(flags)
  \/ EndCommand

SpecTypedef == InitCommon /\ [][NextTypedef]_vars

\* The nodes of the typedef's AST, other than the root, that have a name.
NamedBelowRoot(a, n) ==
  { m \in NodesOf(a, n) : m # n /\ ~c_sname_empty(a[m].sname) }

NameTokens(toks, m) ==
  { i \in 1..Len(toks) : toks[i].n = m /\ toks[i].r = "name" }

PrintedAsUsing ==
  /\ Printed
  /\ "C_GIB_USING" \in gib_flags
  /\ ast[root].kind # "K_ENUM_CLASS_STRUCT_UNION"

\* C12 (as the documentation states it): when a typedef is printed as a
\* using declaration, the alias name is printed once, after `using`, and
\* only that one name is suppressed inside the declarator; every other
\* name, in particular the name of each function parameter, is still
\* printed.  The code suppresses the first name of every parameter too.
C12_UsingSkipsOneName ==
  PrintedAsUsing =>
    /\ \E i \in 1..Len(gout) :
         /\ gout[i].r = "alias"
         /\ gout[i].t = c_sname_local_name(ast[root].sname)
         /\ i > 2 /\ gout[i - 2].t = "using"
         /\ \A j \in 1..Len(gout) : gout[j].r = "alias" => j = i
    /\ NameTokens(gout, root) = {}
    /\ \A m \in NamedBelowRoot(ast, root) :
         \E i \in NameTokens(gout, m) :
           gout[i].t = c_sname_local_name(ast[m].sname)

\* typedef int (*I)(char c), printed as a using declaration.
C12_FailingInput ==
  /\ PrintedAsUsing
  /\ NamedBelowRoot(ast, root) # {}
  /\ TextOut = "using I = int(*)(char);\n"

\* The typedef that was printed has a scoped name.
PrintedScoped ==
  /\ Printed
  /\ gib_flags \cap { "C_GIB_TYPEDEF", "C_GIB_USING" } # {}
  /\ c_sname_count(ast[root].sname) > 1

RoleTokens(toks, r) == { i \in 1..Len(toks) : toks[i].r = r }

\* Scope i is opened by a declaration of its own, `namespace X { `.
NamespaceOpenedAlone(toks, name) ==
  \E i \in RoleTokens(toks, "scope_name") :
    /\ toks[i].t = name
    /\ i > 2 /\ toks[i - 2].t = "namespace"

\* A nested namespace declaration, `namespace A::B { `, is printed.
NestedNamespacePrinted(toks) ==
  \E i \in RoleTokens(toks, "scope_name") :
    /\ i > 2 /\ toks[i - 2].t = "namespace"
    /\ \E k \in 1..Len(toks[i].t) - 1 : SubSeq(toks[i].t, k, k + 1) = "::"

BracesBalanced(toks) ==
  /\ RoleTokens(toks, "open_brace") # {}
  /\ Cardinality(RoleTokens(toks, "open_brace"))
       = Cardinality(RoleTokens(toks, "close_brace"))

NamespacesEach(toks, sname, types) ==
  /\ Cardinality(RoleTokens(toks, "open_brace")) = Len(types)
  /\ \A i \in 1..Len(types) : NamespaceOpenedAlone(toks, sname[i])

AllNamespaces(types) ==
  \A i \in 1..Len(types) : types[i].btids = { "TB_NAMESPACE" }

NestedNamespaceLang(lang) == lang >= LANG_CPP_17 \/ lang < LANG_CPP_98

\* C13 (as the documentation states it): a typedef with a scoped name of
\* n > 1 segments is wrapped in its enclosing scopes with as many closing
\* braces as opening braces; when the enclosing scopes are namespaces and
\* the language is C++14 or earlier, one `namespace X {` is printed per
\* enclosing scope; the nested form `namespace A::B {` is printed only in
\* C++17 or later or in C.
C13_ScopedTypedef ==
  PrintedScoped =>
    /\ BracesBalanced(gout)
    /\ AllNamespaces(ast[root].sname_types)
         /\ ~NestedNamespaceLang(opt_lang)
         => NamespacesEach(gout, ast[root].sname, ast[root].sname_types)
    /\ NestedNamespacePrinted(gout) => NestedNamespaceLang(opt_lang)

\* typedef int A::B::I where A and B are scopes of unknown type, in C++14.
C13_FailingInput ==
  /\ PrintedScoped
  /\ opt_lang = LANG_CPP_14
  /\ ast[root].sname_types = << TB_SCOPE_LIT, TB_SCOPE_LIT >>
  /\ TextOut = "namespace A::B { typedef int I; }\n"

PrintedTypedef ==
  /\ Printed
  /\ gib_flags \cap { "C_GIB_TYPEDEF", "C_GIB_USING" } # {}

\* The output ends with exactly one newline.
OneNewlineAtEnd(toks) == RoleTokens(toks, "nl") = { Len(toks) }

\* The text before the newline ends with `;`.
EndsWithSemicolon(toks) == Len(toks) > 1 /\ toks[Len(toks) - 1].t = ";"

\* The last scope keyword printed is `namespace`.
InNamespace(toks) ==
  \E i \in RoleTokens(toks, "scope_kw") :
    /\ toks[i].t = "namespace"
    /\ \A j \in RoleTokens(toks, "scope_kw") : j <= i

C14_WitnessPlain ==
  /\ PrintedTypedef
  /\ opt_semicolon
  /\ TextOut = "typedef int (*I)(char c);\n"

(***************************************************************************)
(* SpecEnglish: declarations with functions of every kind of parameter and *)
(* with pointers to member are explained in English.                       *)
(***************************************************************************)
EnglishLeafNodes ==
  { c_ast_new("K_BUILTIN", T_INT_LIT, << "x" >>, 0),
    c_ast_new("K_BUILTIN", C_TYPE_LIT({ "TB_VOID" }, TNONE, TNONE),
              << "p" >>, 0) }

EnglishPointerNodes ==
  { c_ast_new("K_POINTER", C_TYPE_NONE, << >>, 0) }
    \cup
  { [c_ast_new("K_POINTER_TO_MEMBER", type, << >>, 0)
       EXCEPT !.class_sname = << "C" >>] :
      type \in { C_TYPE_LIT({ "TB_CLASS" }, TNONE, TNONE),
                 C_TYPE_LIT({ "TB_STRUCT" }, { "TS_CONST" }, TNONE) } }

EnglishFuncNodes == { c_ast_new("K_FUNCTION", C_TYPE_NONE, << >>, 0) }

NextEnglish ==
  \/ \E lang \in { LANG_C_89, LANG_CPP_11 } : SetLang(lang)
  \/ \E leaf \in EnglishLeafNodes : StartDecl(leaf)
  \/ \E node \in EnglishPointerNodes : Wrap(node, << >>)
  \/ \E node \in EnglishFuncNodes : \E plist \in ParamListsAll :
       Wrap(node, plist)
  \/ English
  \/ EndCommand

SpecEnglish == InitCommon /\ [][NextEnglish]_vars

\* The words and punctuation marks of an English text, in order.
EPunct(s, i) == SubSeq(s, i, i) \in { "(", ")", "," }

ESep(s, i) == SubSeq(s, i, i) = " " \/ EPunct(s, i)

EStarts(s) ==
  { i \in 1..Len(s) :
      \/ EPunct(s, i)
      \/ ~ESep(s, i) /\ (i = 1 \/ ESep(s, i - 1)) }

EEnd(s, i) ==
  IF EPunct(s, i) THEN i
  ELSE CHOOSE j \in i..Len(s) :
         /\ \A k \in i..j : ~ESep(s, k)
         /\ j = Len(s) \/ ESep(s, j + 1)

ELex(s) ==
  LET starts == EStarts(s) IN
  [ k \in 1..Cardinality(starts) |->
      LET i == CHOOSE x \in starts :
                 Cardinality({ y \in starts : y < x }) = k - 1
      IN  SubSeq(s, i, EEnd(s, i)) ]

EWords == ELex(eout)

Positions(ws, w) == { i \in 1..Len(ws) : ws[i] = w }

Min(S) == CHOOSE x \in S : \A y \in S : x <= y

\* The function-like nodes of the declaration that have parameters.
FuncsWithParams(a, n) ==
  { c \in ChainOf(a, n) :
      a[c].kind \in K_ANY_FUNCTION_LIKE /\ a[c].param_ast_list # << >> }

\* The words of the k-th of the comma-separated items between the first
\* `(` and the first `)` after it.
RECURSIVE ItemsFrom(_, _, _)
ItemsFrom(ws, i, item) ==
  IF i > Len(ws) \/ ws[i] = ")" THEN << item >>
  ELSE IF ws[i] = "," THEN << item >> \o ItemsFrom(ws, i + 1, << >>)
  ELSE ItemsFrom(ws, i + 1, Append(item, ws[i]))

ParamItems(ws) ==
  IF Positions(ws, "(") = {} THEN << >>
  ELSE ItemsFrom(ws, Min(Positions(ws, "(")) + 1, << >>)

InSeq(x, sq) == \E k \in 1..Len(sq) : sq[k] = x

\* One parameter is printed in the form its AST calls for.
ParamForm(a, p, item) ==
  LET name == c_ast_name_down(a, p) IN
  IF a[p].kind = "K_NAME" THEN item = << name >>
  ELSE IF name # ""
    THEN /\ Len(item) >= 3
         /\ item[1] = name /\ item[2] = "as"
         /\ \A k \in 3..Len(item) : item[k] \notin { name, "as" }
  ELSE /\ item # << >>
       /\ ~InSeq("as", item)

\* C15: the parameters of a function-like node are printed in English
\* between `(` and `)`, separated by `, `, each as `<name> as <english>` when
\* it is typed and named, as `<english>` alone when it is unnamed and as
\* `<name>` alone when it is an untyped K&R parameter; no parameter's name is
\* printed twice.
C15_EnglishParams ==
  Explained =>
    \A f \in FuncsWithParams(ast, root) :
      Cardinality(FuncsWithParams(ast, root)) = 1 =>
        LET ws == EWords
            items == ParamItems(ws)
            plist == ast[f].param_ast_list
        IN  /\ Len(items) = Len(plist)
            /\ \A k \in 1..Len(plist) : ParamForm(ast, plist[k], items[k])
            /\ \E i \in Positions(ws, ")") : i > Min(Positions(ws, "("))

C15_Witness ==
  /\ Explained
  /\ eout = "pointer to function (s as pointer to char, variadic) returning int"

C15_WitnessKNR ==
  /\ Explained
  /\ eout = "function (n) returning int"

\* The pointer-to-member nodes of the declaration.
PtrsToMember(a, n) ==
  { c \in ChainOf(a, n) : a[c].kind = "K_POINTER_TO_MEMBER" }

\* The words `pointer to member of <class-key> <name>` start at position k.
PtrToMemberAt(ws, k, a, c) ==
  /\ k + 5 <= Len(ws)
  /\ SubSeq(ws, k, k + 5) =
       << "pointer", "to", "member", "of",
          c_type_name([a[c].type EXCEPT !.stids = @ \ TS_MASK_QUALIFIER]),
          c_sname_full_name(a[c].class_sname) >>
  /\ a[c].type.stids \cap TS_MASK_QUALIFIER # TNONE =>
       k > 1 /\ ws[k - 1] = c_type_name(
                  C_TYPE_LIT(TNONE, a[c].type.stids \cap TS_MASK_QUALIFIER,
                             TNONE))

\* The words of the English of the member type follow position k.
MemberTypeAfter(ws, k, sub) ==
  /\ k + Len(sub) <= Len(ws)
  /\ SubSeq(ws, k + 1, k + Len(sub)) = sub

MemberTypeWords(a, c) == ELex(c_ast_english(a, a[c].of_ast))

\* C16 (as the documentation states it): for a pointer to member the
\* English printer prints `pointer to member of class <name> of`, after the
\* pointer's own qualifiers, and then the English of the member type.
C16_PtrToMemberOf ==
  Explained =>
    LET ws == EWords IN
    \A c \in PtrsToMember(ast, root) :
      LET sub == MemberTypeWords(ast, c) IN
      \E k \in 1..Len(ws) :
        /\ PtrToMemberAt(ws, k, ast, c)
        /\ k + 6 <= Len(ws) /\ ws[k + 6] = "of"
        /\ MemberTypeAfter(ws, k + 6, sub)

\* C16 (amended): for a pointer to member the English printer prints
\* `pointer to member of class <name>`, after the pointer's own qualifiers,
\* and then directly the English of the member type; no word `of` stands
\* between the class name and the member type.
C16_PtrToMemberNoOf ==
  Explained =>
    LET ws == EWords IN
    \A c \in PtrsToMember(ast, root) :
      LET sub == MemberTypeWords(ast, c) IN
      \E k \in 1..Len(ws) :
        /\ PtrToMemberAt(ws, k, ast, c)
        /\ k + 6 <= Len(ws) /\ ws[k + 6] # "of"
        /\ MemberTypeAfter(ws, k + 5, sub)

\* Pointer to member of class C of function (x as int, y as int) returning
\* void.
C16_Witness ==
  /\ Explained
  /\ PtrsToMember(ast, root) = { root }
  /\ eout = "pointer to member of class C function (x as int, y as int) returning void"

(***************************************************************************)
(* dam_lev_dist (dam_lev.c).  The distance matrix is a function from       *)
(* (row, column) to a distance; the loops of the code are the recursive    *)
(* operators DistCols and DistRows.                                        *)
(***************************************************************************)
MaxStrLen == 3

Alphabet == { "a", "b", "c" }

min_dist(i, j) == IF i < j THEN i ELSE j

\* The matrix after the two initialisation loops; -1 marks an element that
\* has not been written.
DistInit(slen, tlen) ==
  LET inf == slen + tlen IN
  [ i \in 0..slen + 1, j \in 0..tlen + 1 |->
      IF i = 0 \/ j = 0 THEN inf
      ELSE IF j = 1 THEN i - 1
      ELSE IF i = 1 THEN j - 1
      ELSE 0 - 1 ]

\* The inner loop, from column col on: st holds the matrix and
\* last_match_col.
RECURSIVE DistCols(_, _, _, _, _, _)
DistCols(src, tgt, row, col, last_row, st) ==
  IF col > Len(tgt) THEN st
  ELSE LET sc == SubSeq(src, row, row)
           tc == SubSeq(tgt, col, col)
           last_match_row == last_row[tc]
           match == sc = tc
           m == st.dist_matrix
           ins_dist == m[row, col + 1] + 1
           del_dist == m[row + 1, col] + 1
           sub_dist == m[row, col] + (IF match THEN 0 ELSE 1)
           xpos_dist == m[last_match_row, st.last_match_col]
                          + (row - last_match_row - 1)
                          + (col - st.last_match_col - 1)
                          + 1
           dist_min == min_dist(min_dist(min_dist(ins_dist, del_dist),
                                         sub_dist), xpos_dist)
       IN  DistCols(src, tgt, row, col + 1, last_row,
             [ dist_matrix |-> [m EXCEPT ![row + 1, col + 1] = dist_min],
               last_match_col |-> IF match THEN col ELSE st.last_match_col ])

\* The outer loop, from row `row` on.
RECURSIVE DistRows(_, _, _, _, _)
DistRows(src, tgt, row, last_row, m) ==
  IF row > Len(src) THEN m
  ELSE LET st == DistCols(src, tgt, row, 1, last_row,
                          [ dist_matrix |-> m, last_match_col |-> 0 ])
       IN  DistRows(src, tgt, row + 1,
                    [last_row EXCEPT ![SubSeq(src, row, row)] = row],
                    st.dist_matrix)

\* A variant that knows no edit but the replacement of the whole string.
dam_lev_dist_whole(src, tgt) ==
  IF src = tgt THEN 0
  ELSE IF Len(src) > Len(tgt) THEN Len(src) ELSE Len(tgt)

dam_lev_dist(src, tgt) ==
  LET slen == Len(src)
      tlen == Len(tgt)
  IN  IF slen = 0 THEN tlen
      ELSE IF tlen = 0 THEN slen
      ELSE DistRows(src, tgt, 1, [ c \in Alphabet |-> 0 ],
                    DistInit(slen, tlen))[slen + 1, tlen + 1]

RECURSIVE StringsOfLen(_)
StringsOfLen(k) ==
  IF k = 0 THEN { "" }
  ELSE { s \o c : s \in StringsOfLen(k - 1), c \in Alphabet }

StringsUpTo(k) == UNION { StringsOfLen(j) : j \in 0..k }

\* The suggestion engine asks for the distance of two words.
DamLevDist(src, tgt) ==
  /\ pc = "idle"
  /\ source' = src
  /\ target' = tgt
  /\ edit_dist' = dam_lev_dist(src, tgt)
  /\ pc' = "dist"
  /\ UNCHANGED << sessVars, cliVars, kindVars, tdefVars, typeVars, optVars, astVars,
                  printVars, graphVars >>

\* The call returns: its arguments and its result are gone.
DistDone ==
  /\ pc = "dist"
  /\ source' = ""
  /\ target' = ""
  /\ edit_dist' = 0
  /\ pc' = "idle"
  /\ UNCHANGED << sessVars, cliVars, kindVars, tdefVars, typeVars, optVars, astVars,
                  printVars, graphVars >>

NextDist ==
  \/ \E src \in StringsUpTo(MaxStrLen) : \E tgt \in StringsUpTo(MaxStrLen) :
       DamLevDist(src, tgt)
  \/ DistDone

SpecDist == InitCommon /\ [][NextDist]_vars

\* The strings one edit away from s: one character inserted, deleted or
\* substituted, or two adjacent characters transposed.
OneEdit(s, maxlen) ==
  LET n == Len(s)
      pre(i) == SubSeq(s, 1, i)
      post(i) == SubSeq(s, i, n)
  IN  (IF n < maxlen
         THEN { pre(i) \o c \o post(i + 1) : i \in 0..n, c \in Alphabet }
         ELSE {})
        \cup { pre(i - 1) \o post(i + 1) : i \in 1..n }
        \cup { pre(i - 1) \o c \o post(i + 1) : i \in 1..n, c \in Alphabet }
        \cup { pre(i - 1) \o SubSeq(s, i + 1, i + 1) \o SubSeq(s, i, i)
                 \o post(i + 2) : i \in 1..n - 1 }

\* The least number of edits that turn src into tgt, by breadth-first
\* search: `seen` are the strings within k edits, `front` those at exactly k.
RECURSIVE EditsNeeded(_, _, _, _, _)
EditsNeeded(tgt, seen, front, k, maxlen) ==
  IF tgt \in front THEN k
  ELSE LET next == UNION { OneEdit(s, maxlen) : s \in front } \ seen
       IN  EditsNeeded(tgt, seen \cup next, next, k + 1, maxlen)

EditDistance(src, tgt) ==
  EditsNeeded(tgt, { src }, { src }, 0, MaxStrLen + 1)

Transposed(s, u) ==
  /\ s # u
  /\ \E i \in 1..Len(s) - 1 :
       u = SubSeq(s, 1, i - 1) \o SubSeq(s, i + 1, i + 1) \o SubSeq(s, i, i)
             \o SubSeq(s, i + 2, Len(s))

\* C17: dam_lev_dist(source, target) is the Damerau-Levenshtein distance,
\* the least number of insertions, deletions and substitutions of one
\* character and transpositions of two adjacent characters that turn source
\* into target; it is 0 exactly when the strings are equal, the length of
\* the other string when one is empty, 1 for one adjacent transposition,
\* and symmetric.
C17_DamLevDistance ==
  pc = "dist" =>
    /\ edit_dist = EditDistance(source, target)
    /\ edit_dist = 0 <=> source = target
    /\ source = "" => edit_dist = Len(target)
    /\ target = "" => edit_dist = Len(source)
    /\ Transposed(source, target) => edit_dist = 1
    /\ edit_dist = dam_lev_dist(target, source)

\* ca -> ac -> abc: a transposition and an insertion between the two
\* transposed characters.
C17_Witness ==
  /\ pc = "dist"
  /\ source = "ca" /\ target = "abc"
  /\ edit_dist = 2

C17_WitnessTransposed ==
  /\ pc = "dist"
  /\ source = "abc" /\ target = "acb"
  /\ edit_dist = 1

(***************************************************************************)
(* AST kinds as bits (c_kind.h).  The sources hold two issues of the       *)
(* header: c_kind.h itself and the earlier one that precedes the            *)
(* command-line options; both are modelled.  A kind value or a mask is the *)
(* set of the positions of its one bits.                                   *)
(***************************************************************************)
c_ast_kind ==
  [ K_PLACEHOLDER |-> 2 ^ 0, K_BUILTIN |-> 2 ^ 1, K_CAPTURE |-> 2 ^ 2,
    K_CLASS_STRUCT_UNION |-> 2 ^ 3, K_NAME |-> 2 ^ 4, K_TYPEDEF |-> 2 ^ 5,
    K_VARIADIC |-> 2 ^ 6, K_ARRAY |-> 2 ^ 7, K_CAST |-> 2 ^ 8,
    K_ENUM |-> 2 ^ 9, K_POINTER |-> 2 ^ 10, K_POINTER_TO_MEMBER |-> 2 ^ 11,
    K_REFERENCE |-> 2 ^ 12, K_RVALUE_REFERENCE |-> 2 ^ 13,
    K_CONSTRUCTOR |-> 2 ^ 14, K_DESTRUCTOR |-> 2 ^ 15,
    K_APPLE_BLOCK |-> 2 ^ 16, K_FUNCTION |-> 2 ^ 17, K_LAMBDA |-> 2 ^ 18,
    K_OPERATOR |-> 2 ^ 19, K_UDEF_CONV |-> 2 ^ 20, K_UDEF_LIT |-> 2 ^ 21 ]

c_ast_kind_prev ==
  [ K_PLACEHOLDER |-> 2 ^ 0, K_BUILTIN |-> 2 ^ 1,
    K_CLASS_STRUCT_UNION |-> 2 ^ 2, K_NAME |-> 2 ^ 3, K_TYPEDEF |-> 2 ^ 4,
    K_VARIADIC |-> 2 ^ 5, K_ARRAY |-> 2 ^ 6, K_ENUM |-> 2 ^ 7,
    K_POINTER |-> 2 ^ 8, K_POINTER_TO_MEMBER |-> 2 ^ 9,
    K_REFERENCE |-> 2 ^ 10, K_RVALUE_REFERENCE |-> 2 ^ 11,
    K_CONSTRUCTOR |-> 2 ^ 12, K_DESTRUCTOR |-> 2 ^ 13,
    K_APPLE_BLOCK |-> 2 ^ 14, K_FUNCTION |-> 2 ^ 15, K_OPERATOR |-> 2 ^ 16,
    K_USER_DEF_CONVERSION |-> 2 ^ 17, K_USER_DEF_LITERAL |-> 2 ^ 18 ]

\* The one bits of a kind value (no kind uses bit 31).
KindBits(v) == { b \in 0..30 : (v \div (2 ^ b)) % 2 = 1 }

\* The K_ANY_* shorthands of c_kind.h.
c_kind_any ==
  LET K(k) == KindBits(c_ast_kind[k])
      K_ANY_TRAILING_RETURN_ ==
        K("K_FUNCTION") \cup K("K_LAMBDA") \cup K("K_OPERATOR")
      K_ANY_FUNCTION_RETURN_ ==
        K_ANY_TRAILING_RETURN_ \cup K("K_APPLE_BLOCK") \cup K("K_UDEF_CONV")
          \cup K("K_UDEF_LIT")
      K_ANY_FUNCTION_LIKE_ ==
        K_ANY_FUNCTION_RETURN_ \cup K("K_CONSTRUCTOR")
          \cup K("K_DESTRUCTOR")
      K_ANY_POINTER_ == K("K_POINTER") \cup K("K_POINTER_TO_MEMBER")
      K_ANY_REFERENCE_ == K("K_REFERENCE") \cup K("K_RVALUE_REFERENCE")
      K_ANY_PARENT_ ==
        K_ANY_FUNCTION_RETURN_ \cup K_ANY_POINTER_ \cup K_ANY_REFERENCE_
          \cup K("K_ARRAY") \cup K("K_CAST") \cup K("K_ENUM")
  IN  [ K_ANY_TRAILING_RETURN |-> K_ANY_TRAILING_RETURN_,
        K_ANY_FUNCTION_RETURN |-> K_ANY_FUNCTION_RETURN_,
        K_ANY_FUNCTION_LIKE |-> K_ANY_FUNCTION_LIKE_,
        K_ANY_POINTER |-> K_ANY_POINTER_,
        K_ANY_REFERENCE |-> K_ANY_REFERENCE_,
        K_ANY_PARENT |-> K_ANY_PARENT_,
        K_ANY_REFERRER |-> K_ANY_PARENT_ \cup K("K_TYPEDEF") ]

\* The K_ANY_* shorthands of the earlier header.
c_kind_any_prev ==
  LET K(k) == KindBits(c_ast_kind_prev[k])
      K_ANY_FUNCTION_LIKE_ ==
        K("K_APPLE_BLOCK") \cup K("K_CONSTRUCTOR") \cup K("K_DESTRUCTOR")
          \cup K("K_FUNCTION") \cup K("K_OPERATOR")
          \cup K("K_USER_DEF_CONVERSION") \cup K("K_USER_DEF_LITERAL")
      K_ANY_POINTER_ == K("K_POINTER") \cup K("K_POINTER_TO_MEMBER")
      K_ANY_REFERENCE_ == K("K_REFERENCE") \cup K("K_RVALUE_REFERENCE")
      K_ANY_PARENT_ ==
        K_ANY_FUNCTION_LIKE_ \cup K_ANY_POINTER_ \cup K_ANY_REFERENCE_
          \cup K("K_ARRAY") \cup K("K_ENUM")
  IN  [ K_ANY_FUNCTION_LIKE |-> K_ANY_FUNCTION_LIKE_,
        K_ANY_POINTER |-> K_ANY_POINTER_,
        K_ANY_REFERENCE |-> K_ANY_REFERENCE_,
        K_ANY_PARENT |-> K_ANY_PARENT_,
        K_ANY_REFERRER |-> K_ANY_PARENT_ \cup K("K_TYPEDEF") ]

\* The kinds the documentation comment of K_ANY_PARENT lists.
K_ANY_PARENT_doc ==
  { "K_APPLE_BLOCK", "K_ARRAY", "K_CAST", "K_CONSTRUCTOR", "K_DESTRUCTOR",
    "K_ENUM", "K_FUNCTION", "K_OPERATOR", "K_POINTER", "K_POINTER_TO_MEMBER",
    "K_REFERENCE", "K_RVALUE_REFERENCE", "K_UDEF_CONV", "K_UDEF_LIT" }

K_ANY_PARENT_doc_prev ==
  { "K_APPLE_BLOCK", "K_ARRAY", "K_CONSTRUCTOR", "K_DESTRUCTOR", "K_ENUM",
    "K_FUNCTION", "K_OPERATOR", "K_POINTER", "K_POINTER_TO_MEMBER",
    "K_REFERENCE", "K_RVALUE_REFERENCE", "K_USER_DEF_CONVERSION",
    "K_USER_DEF_LITERAL" }

KindHeaders == { "c_kind.h", "c_kind.h.prev" }

KindTable(hdr) == IF hdr = "c_kind.h" THEN c_ast_kind ELSE c_ast_kind_prev

KindAny(hdr) == IF hdr = "c_kind.h" THEN c_kind_any ELSE c_kind_any_prev

KindDoc(hdr) ==
  IF hdr = "c_kind.h" THEN K_ANY_PARENT_doc ELSE K_ANY_PARENT_doc_prev

\* (kind & kind_ids) != 0, the test of c_ast_is_parent and its like.
c_kind_is_any(hdr, kind, ids) ==
  KindBits(KindTable(hdr)[kind]) \cap KindAny(hdr)[ids] # {}

KindTest(hdr, kind, ids) ==
  /\ pc = "idle"
  /\ kind_hdr' = hdr
  /\ kind_id' = kind
  /\ kind_ids' = ids
  /\ kind_ret' = c_kind_is_any(hdr, kind, ids)
  /\ pc' = "kind"
  /\ UNCHANGED << sessVars, cliVars, distVars, tdefVars, typeVars, optVars, astVars,
                  printVars, graphVars >>

KindDone ==
  /\ pc = "kind"
  /\ pc' = "idle"
  /\ UNCHANGED << auxVars, typeVars, optVars, astVars,
                  printVars, graphVars >>

NextKind ==
  \/ \E hdr \in KindHeaders :
       \E kind \in DOMAIN KindTable(hdr) : \E ids \in DOMAIN KindAny(hdr) :
         KindTest(hdr, kind, ids)
  \/ KindDone

SpecKind == InitCommon /\ [][NextKind]_vars

\* The kinds the claim names as parents beside the function-like ones.
ParentKindsNamed ==
  { "K_ARRAY", "K_ENUM", "K_POINTER", "K_POINTER_TO_MEMBER", "K_REFERENCE",
    "K_RVALUE_REFERENCE" }

KindsDistinctBits(hdr) ==
  \A k \in DOMAIN KindTable(hdr) :
    /\ Cardinality(KindBits(KindTable(hdr)[k])) = 1
    /\ \A j \in DOMAIN KindTable(hdr) :
         j # k => KindBits(KindTable(hdr)[j]) \cap KindBits(KindTable(hdr)[k])
                    = {}

\* C18: each AST kind is a distinct single bit; every function-like kind,
\* constructor and destructor included, and array, enum, pointer,
\* pointer-to-member, reference and rvalue reference are in K_ANY_PARENT;
\* K_ANY_PARENT holds exactly the kinds its documentation lists; and
\* K_ANY_REFERRER is exactly K_ANY_PARENT plus K_TYPEDEF.
C18_KindGroupsNest ==
  pc = "kind" =>
    /\ KindsDistinctBits(kind_hdr)
    /\ kind_ids = "K_ANY_PARENT" =>
         /\ c_kind_is_any(kind_hdr, kind_id, "K_ANY_FUNCTION_LIKE") => kind_ret
         /\ kind_id \in ParentKindsNamed => kind_ret
         /\ kind_ret <=> kind_id \in KindDoc(kind_hdr)
    /\ kind_ids = "K_ANY_REFERRER" =>
         ( kind_ret <=> \/ c_kind_is_any(kind_hdr, kind_id, "K_ANY_PARENT")
                        \/ kind_id = "K_TYPEDEF" )

\* A constructor tested against K_ANY_PARENT of c_kind.h.
C18_FailingInput ==
  /\ pc = "kind"
  /\ kind_hdr = "c_kind.h"
  /\ kind_id = "K_CONSTRUCTOR"
  /\ kind_ids = "K_ANY_PARENT"
  /\ ~kind_ret

(***************************************************************************)
(* Command-line options (cli_options.c).  argv holds the options after the *)
(* program name in their order: the option character and its argument, if  *)
(* it takes one.  Short options may be bundled in one word, so argc is the *)
(* number of words and not of options.  exit_status is "" while the        *)
(* program runs.                                                           *)
(***************************************************************************)
MaxArgs == 3

LANG_NONE == 0

\* c_lang_find: the language of a name, LANG_NONE for no language's name.
c_lang_find(name) ==
  CASE name = "c89"   -> LANG_C_89
    [] name = "c99"   -> LANG_C_99
    [] name = "c++11" -> LANG_CPP_11
    [] name = "c++14" -> LANG_CPP_14
    [] name = "c++17" -> LANG_CPP_17
    [] OTHER          -> LANG_NONE

\* The short options of CLI_OPTIONS_SHORT (in a build without the debug
\* options).
CLI_OPTIONS_SHORT ==
  { "a", "k", "c", "2", "E", "e", "S", "I", "f", "h", "i", "x", "C", "p", "s",
    "t", "u", "o", "3", "v" }

\* The second argument of the check for --help and of that for --version.
HelpExclusive ==
  << "a", "k", "c", "2", "E", "e", "S", "I", "f", "i", "x", "C", "p", "s",
     "t", "u", "o", "3", "v" >>

VersionExclusive ==
  << "a", "k", "c", "2", "E", "e", "S", "I", "f", "h", "i", "x", "C", "p",
     "s", "t", "u", "o", "3" >>

\* The body of the getopt_long loop for one argument: st holds the option
\* variables, the local flags, opts_given and the exit status.
parse_option(st, a) ==
  LET given == [st EXCEPT !.opts_given = @ \cup { a.opt }] IN
  CASE a.opt \notin CLI_OPTIONS_SHORT -> [st EXCEPT !.exit_status = "EX_USAGE"]
    [] a.opt = "a" -> [given EXCEPT !.opt_alt_tokens = TRUE]
    [] a.opt = "2" -> [given EXCEPT !.opt_graph = C_GRAPH_DI]
    [] a.opt = "3" -> [given EXCEPT !.opt_graph = C_GRAPH_TRI]
    [] a.opt = "E" -> [given EXCEPT !.opt_east_const = TRUE]
    [] a.opt = "s" -> [given EXCEPT !.opt_semicolon = FALSE]
    [] a.opt = "h" -> [given EXCEPT !.print_usage = TRUE]
    [] a.opt = "v" -> [given EXCEPT !.print_version = TRUE]
    [] a.opt = "x" ->
         IF c_lang_find(a.arg) # LANG_NONE
           THEN [given EXCEPT !.opt_lang = c_lang_find(a.arg)]
           ELSE [st EXCEPT !.exit_status = "EX_USAGE"]
    [] OTHER -> given

RECURSIVE parse_loop(_, _, _)
parse_loop(st, args, i) ==
  IF i > Len(args) \/ st.exit_status # "" THEN st
  ELSE parse_loop(parse_option(st, args[i]), args, i + 1)

\* A variant that never finds two options of the two sets.
check_mutually_exclusive_never(given, opts1, opts2) == FALSE

\* check_mutually_exclusive: TRUE when it ends the program with EX_USAGE,
\* that is when the scan of opts1 finds a given option and the scan of
\* opts2 finds another.
check_mutually_exclusive(given, opts1, opts2) ==
  LET first_given(opts) ==
        IF \E k \in 1..Len(opts) : opts[k] \in given
          THEN CHOOSE k \in 1..Len(opts) :
                 /\ opts[k] \in given
                 /\ \A j \in 1..k - 1 : opts[j] \notin given
          ELSE 0
      gave_count1 == IF first_given(opts1) # 0 THEN 1 ELSE 0
      gave_count2 ==
        IF gave_count1 = 0 THEN 0
        ELSE IF first_given(opts2) # 0 THEN gave_count1 + 1 ELSE gave_count1
  IN  gave_count2 > 1

\* parse_options up to the exits for usage and version.
parse_options(n, args) ==
  LET st0 == [ opt_lang |-> opt_lang, opt_alt_tokens |-> opt_alt_tokens,
               opt_east_const |-> opt_east_const, opt_graph |-> opt_graph,
               opt_semicolon |-> opt_semicolon, print_usage |-> FALSE,
               print_version |-> FALSE, opts_given |-> {},
               exit_status |-> "" ]
      st == parse_loop(st0, args, 1)
      exit(s) == [st EXCEPT !.exit_status = s]
  IN  IF st.exit_status # "" THEN st
      ELSE IF check_mutually_exclusive(st.opts_given, << "2" >>, << "3" >>)
        THEN exit("EX_USAGE")
      ELSE IF check_mutually_exclusive(st.opts_given, << "h" >>,
                                       HelpExclusive)
        THEN exit("EX_USAGE")
      ELSE IF check_mutually_exclusive(st.opts_given, << "v" >>,
                                       VersionExclusive)
        THEN exit("EX_USAGE")
      ELSE IF st.print_usage
        THEN exit(IF n > 2 THEN "EX_USAGE" ELSE "EX_OK")
      ELSE IF st.print_version
        THEN exit(IF n > 2 THEN "EX_USAGE" ELSE "EX_OK")
      ELSE st

\* The arguments a command line is made of.
ArgMenu ==
  { [ opt |-> o, arg |-> "" ] : o \in { "h", "v", "2", "3", "a", "E", "s",
                                        "z" } }
    \cup { [ opt |-> "x", arg |-> n ] : n \in { "c99", "bogus" } }

ArgLists == UNION { [ 1..n -> ArgMenu ] : n \in 0..MaxArgs }

\* The numbers of words, the program name included, a list of options can
\* be written in.
ArgCounts(args) ==
  IF args = << >> THEN { 1 } ELSE 2..Len(args) + 1

ParseOptions(n, args) ==
  /\ pc = "idle"
  /\ LET st == parse_options(n, args) IN
       /\ argc' = n
       /\ argv' = args
       /\ opts_given' = st.opts_given
       /\ exit_status' = st.exit_status
       /\ opt_lang' = st.opt_lang
       /\ opt_alt_tokens' = st.opt_alt_tokens
       /\ opt_east_const' = st.opt_east_const
       /\ opt_graph' = st.opt_graph
       /\ opt_semicolon' = st.opt_semicolon
  /\ pc' = "cli"
  /\ UNCHANGED << sessVars, kindVars, distVars, tdefVars, typeVars, astVars, printVars,
                  graphVars >>

\* The program ends; the next run starts with the defaults.
CliDone ==
  /\ pc = "cli"
  /\ argc' = 1
  /\ argv' = << >>
  /\ opts_given' = {}
  /\ exit_status' = ""
  /\ opt_lang' = LANG_CPP_NEW
  /\ opt_alt_tokens' = FALSE
  /\ opt_east_const' = FALSE
  /\ opt_graph' = C_GRAPH_NONE
  /\ opt_semicolon' = TRUE
  /\ pc' = "idle"
  /\ UNCHANGED << sessVars, kindVars, distVars, tdefVars, typeVars, astVars, printVars,
                  graphVars >>

NextCli ==
  \/ \E args \in ArgLists : \E n \in ArgCounts(args) : ParseOptions(n, args)
  \/ CliDone

SpecCli == InitCommon /\ [][NextCli]_vars

\* The option characters on the command line.
OptsOnLine == { argv[i].opt : i \in 1..Len(argv) }

\* C19: parsing ends with EX_USAGE whenever both a digraphs and a trigraphs
\* option are given, and whenever help or version is given together with
\* any other option, in whatever order; help given alone exits with
\* success.
C19_ExclusiveOptions ==
  pc = "cli" =>
    /\ { "2", "3" } \subseteq OptsOnLine => exit_status = "EX_USAGE"
    /\ \A o \in { "h", "v" } :
         (o \in OptsOnLine /\ OptsOnLine # { o }) => exit_status = "EX_USAGE"
    /\ argv = << [ opt |-> "h", arg |-> "" ] >> => exit_status = "EX_OK"

\* --trigraphs before --digraphs, after another option.
C19_Witness ==
  /\ pc = "cli"
  /\ Len(argv) = 3
  /\ argv[2].opt = "3" /\ argv[3].opt = "2"
  /\ opts_given = { "a", "2", "3" }
  /\ exit_status = "EX_USAGE"

C19_WitnessHelp ==
  /\ pc = "cli"
  /\ argc = 2
  /\ argv = << [ opt |-> "E", arg |-> "" ], [ opt |-> "h", arg |-> "" ] >>
  /\ exit_status = "EX_USAGE"

C19_WitnessHelpAlone ==
  /\ pc = "cli"
  /\ argv = << [ opt |-> "h", arg |-> "" ] >>
  /\ exit_status = "EX_OK"

(***************************************************************************)
(* Consecutive pointers above an array or a function-like node.            *)
(***************************************************************************)
\* The run of plain pointers from node n upwards, innermost first.
RECURSIVE PtrRun(_, _)
PtrRun(a, n) ==
  IF n = 0 THEN << >>
  ELSE IF a[n].kind # "K_POINTER" THEN << >>
  ELSE << n >> \o PtrRun(a, a[n].parent_ast)

\* The parentheses opened on behalf of the nodes in `owners`.
OpensOf(toks, owners) ==
  { i \in 1..Len(toks) : toks[i].r = "open" /\ toks[i].n \in owners }

\* The stars of the run come in the order of the run with no parenthesis
\* between two of them, and right next to each other where the inner
\* pointer has no qualifier.
StarsTogether(toks, a, run) ==
  \A k \in 1..Len(run) - 1 :
    LET i == StarIndex(toks, run[k])
        j == StarIndex(toks, run[k + 1])
    IN  /\ i < j
        /\ \A m \in i + 1..j - 1 : toks[m].t \notin { "(", "(^", ")" }
        /\ c_type_is_none(a[run[k]].type) => j = i + 1

\* C20: for a chain of two or more consecutive plain pointers above an
\* array or function-like node the gibberish printer opens one parenthesis
\* only and prints the stars together, the innermost pointer's first:
\* `int (**x)[3]`, never `int (*(*x))[3]`.
C20_ConsecutivePointers ==
  Printed =>
    \A c \in ChainOf(ast, root) :
      LET run == PtrRun(ast, ast[c].parent_ast) IN
        ( /\ ast[c].kind \in K_ANY_FUNCTION_LIKE \cup { "K_ARRAY" }
          /\ Len(run) >= 2 ) =>
          /\ Cardinality(OpensOf(gout, { c } \cup { run[k] : k \in 1..Len(run) }))
               = 1
          /\ StarsTogether(gout, ast, run)

C20_Witness ==
  /\ Printed
  /\ TextOut = "int (**x)[3]"
  /\ \E c \in ChainOf(ast, root) :
       ast[c].kind = "K_ARRAY" /\ Len(PtrRun(ast, ast[c].parent_ast)) = 2

C20_WitnessFunction ==
  /\ Printed
  /\ TextOut = "char (**f)(int x, int y)"

(***************************************************************************)
(* Balance of the declarator parentheses.                                  *)
(***************************************************************************)
\* The count of open parentheses after the first k tokens.
RECURSIVE ParenLevel(_, _)
ParenLevel(toks, k) ==
  IF k = 0 THEN 0 ELSE ParenLevel(toks, k - 1) + ParenDelta(toks[k])

\* C21: the parentheses the gibberish printer emits around declarators are
\* balanced: every `(` or `(^` written by g_print_postfix has a matching
\* `)` after it and the text as a whole closes what it opens, for every
\* chain of pointers, pointers to member and references above an array,
\* block or function-like node.
C21_ParensBalanced ==
  Printed =>
    /\ \A i \in 1..Len(gout) : gout[i].r = "open" => MatchClose(gout, i) # 0
    /\ \A k \in 1..Len(gout) : ParenLevel(gout, k) >= 0
    /\ ParenLevel(gout, Len(gout)) = 0

\* Pointer to pointer to member of C of function (int x, int y) returning
\* char named f.
C21_FailingInput ==
  /\ Printed
  /\ TextOut = "char (C::*(*f)(int x, int y)"

(***************************************************************************)
(* SpecMsc: functions with a Microsoft calling convention under every      *)
(* legal parent.                                                           *)
(***************************************************************************)
MscFuncNodes ==
  { c_ast_new("K_FUNCTION", C_TYPE_LIT(TNONE, TNONE, at), << >>, 0) :
      at \in { TNONE, { "TA_MSC_STDCALL" }, { "TA_MSC_CDECL" } } }

NextMsc ==
  \/ SetLang(LANG_CPP_11)
  \/ StartDecl(c_ast_new("K_BUILTIN", T_INT_LIT, << "f" >>, 0))
  \/ \E node \in MscFuncNodes, plist \in { << >>, << P_INT_X >> } :
       Wrap(node, plist)
  \/ \E node \in PointerNodes \cup ArrayNodes : Wrap(node, << >>)
  \/ Gibberish({ "C_GIB_DECL" })
  \/ EndCommand

SpecMsc == InitCommon /\ [][NextMsc]_vars

\* The function-like nodes of the declaration that carry a calling
\* convention.
MscFuncs(a, n) ==
  { c \in ChainOf(a, n) :
      /\ a[c].kind \in K_ANY_FUNCTION_LIKE
      /\ a[c].type.atids \cap TA_ANY_MSC_CALL # TNONE }

\* Where the calling convention of node c is printed.
MscAt(toks, c) == { i \in 1..Len(toks) : toks[i].r = "msc" /\ toks[i].n = c }

\* C22: the Microsoft calling convention of a function-like node is printed
\* exactly once: right after the opening parenthesis when the function is
\* the target of a pointer, and otherwise after the return type (before any
\* parenthesis of the node), whatever the kind of the node's parent.
C22_MscCallOnce ==
  Printed =>
    \A c \in MscFuncs(ast, root) :
      /\ Cardinality(MscAt(gout, c)) = 1
      /\ \A i \in MscAt(gout, c) :
           IF c_ast_parent_is_kind(ast, c, "K_POINTER")
             THEN i > 1 /\ gout[i - 1].r = "open" /\ gout[i - 1].n = c
             ELSE /\ i > 2 /\ gout[i - 2].n = ast[c].of_ast
                  /\ \A j \in 1..i : ~(gout[j].n = c /\ gout[j].t = "(")

\* Reference to __stdcall function returning int named f.
C22_FailingInput ==
  /\ Printed
  /\ TextOut = "int __stdcall (__stdcall &f)()"

(***************************************************************************)
(* virtual, override and final; noexcept and throw().                      *)
(***************************************************************************)
\* Whether the word is printed for node n itself.
WordPrinted(toks, n, word) ==
  \E i \in 1..Len(toks) : toks[i].n = n /\ toks[i].t = word

\* Whether the word is printed for node n before its parameter list closes.
WordLeads(toks, n, word) ==
  \E i \in 1..Len(toks) :
    toks[i].n = n /\ toks[i].t = word /\ i < CloseParamsIndex(toks, n)

PrintedFunc == Printed /\ ast[root].kind \in K_TAIL_KINDS

\* C23: for a function-like node `override` is printed only if `final` is
\* not set on the node; `virtual` is not printed whenever `override` or
\* `final` is printed; and when neither `override` nor `final` is set,
\* `virtual` is printed in the leading type if it is set.
C23_VirtualOverrideFinal ==
  PrintedFunc =>
    LET ids == ast[root].type.stids IN
      /\ WordPrinted(gout, root, "override") => "TS_FINAL" \notin ids
      /\ ( \/ WordPrinted(gout, root, "override")
           \/ WordPrinted(gout, root, "final") )
           => ~WordPrinted(gout, root, "virtual")
      /\ ( /\ ids \cap { "TS_OVERRIDE", "TS_FINAL" } = {}
           /\ "TS_VIRTUAL" \in ids )
           => WordLeads(gout, root, "virtual")

C23_Witness ==
  /\ PrintedFunc
  /\ ast[root].type.stids = { "TS_VIRTUAL", "TS_OVERRIDE" }
  /\ TextOut = "int f() override"

C23_WitnessFinal ==
  /\ PrintedFunc
  /\ ast[root].type.stids = { "TS_OVERRIDE", "TS_FINAL" }
  /\ TextOut = "int f() final"

C23_WitnessVirtual ==
  /\ PrintedFunc
  /\ ast[root].type.stids = { "TS_VIRTUAL", "TS_CONST" }
  /\ TextOut = "virtual int f() const"

\* C24: a function-like node that carries noexcept or throw() is printed
\* with `throw()` when the language is earlier than C++11 and with
\* `noexcept` when it is C++11 or later, whichever of the two it carries;
\* the two are never both printed.
C24_NoexceptByLanguage ==
  PrintedFunc =>
    /\ ast[root].type.stids \cap { "TS_NOEXCEPT", "TS_THROW" } # {} =>
         IF opt_lang < LANG_CPP_11
           THEN /\ PrintedInTail(gout, root, "TS_THROW")
                /\ WordPrinted(gout, root, "throw()")
                /\ ~WordPrinted(gout, root, "noexcept")
           ELSE /\ WordPrinted(gout, root, "noexcept")
                /\ ~WordPrinted(gout, root, "throw()")
    /\ ~(WordPrinted(gout, root, "noexcept")
           /\ WordPrinted(gout, root, "throw()"))

\* noexcept carried into C++03.
C24_Witness ==
  /\ PrintedFunc
  /\ opt_lang = LANG_CPP_03
  /\ ast[root].type.stids = { "TS_NOEXCEPT" }
  /\ TextOut = "int f() throw()"

\* throw() carried into C++11.
C24_WitnessThrow ==
  /\ PrintedFunc
  /\ opt_lang = LANG_CPP_11
  /\ ast[root].type.stids = { "TS_THROW", "TS_CONST" }
  /\ TextOut = "int f() const noexcept"

(***************************************************************************)
(* The set command (set.c).  The option variables are opt_lang,            *)
(* opt_alt_tokens, opt_graph, opt_semicolon and whether the prompt is      *)
(* enabled; set_opt is the option name of the last command and set_out     *)
(* what that command printed: "warning" for "trigraphs are no longer       *)
(* supported", "error" for "unknown set option" and "listing" for the      *)
(* listing of the options.                                                 *)
(***************************************************************************)
\* The null pointer that is passed for a set command without an option.
NoOpt == "<null>"

\* The option names set_option compares against (in a build without the
\* debug options).
KnownSetOptions ==
  { "alt-tokens", "noalt-tokens", "digraphs", "trigraphs", "nographs",
    "prompt", "noprompt", "semicolon", "nosemicolon" }

SetState ==
  [ lang |-> opt_lang, alt_tokens |-> opt_alt_tokens, graph |-> opt_graph,
    prompt |-> prompt_enabled, semicolon |-> opt_semicolon ]

\* c_lang_set: makes the language the current one.
c_lang_set(st, new_lang) == [ st EXCEPT !.lang = new_lang ]

\* The label check_trigraphs_lang.
check_trigraphs_lang(st) ==
  IF st.lang >= LANG_CPP_17 THEN { "warning" } ELSE {}

\* A variant that prints the listing after the error as well.
set_option_names_listing(st, opt) ==
  CASE opt = "alt-tokens"   -> [ st |-> [ st EXCEPT !.alt_tokens = TRUE ],
                                 out |-> {} ]
    [] opt = "noalt-tokens" -> [ st |-> [ st EXCEPT !.alt_tokens = FALSE ],
                                 out |-> {} ]
    [] opt = "digraphs"     -> [ st |-> [ st EXCEPT !.graph = C_GRAPH_DI ],
                                 out |-> {} ]
    [] opt = "trigraphs"    ->
         LET st1 == [ st EXCEPT !.graph = C_GRAPH_TRI ]
         IN  [ st |-> st1, out |-> check_trigraphs_lang(st1) ]
    [] opt = "nographs"     -> [ st |-> [ st EXCEPT !.graph = C_GRAPH_NONE ],
                                 out |-> {} ]
    [] opt = "prompt"       -> [ st |-> [ st EXCEPT !.prompt = TRUE ],
                                 out |-> {} ]
    [] opt = "noprompt"     -> [ st |-> [ st EXCEPT !.prompt = FALSE ],
                                 out |-> {} ]
    [] opt = "semicolon"    -> [ st |-> [ st EXCEPT !.semicolon = TRUE ],
                                 out |-> {} ]
    [] opt = "nosemicolon"  -> [ st |-> [ st EXCEPT !.semicolon = FALSE ],
                                 out |-> {} ]
    [] OTHER ->
         IF opt # "options"
           THEN [ st |-> st, out |-> { "error", "listing" } ]
           ELSE [ st |-> st, out |-> { "listing" } ]

\* The IF_IS_OPT_DO lines of set_option and what follows them.
set_option_names(st, opt) ==
  CASE opt = "alt-tokens"   -> [ st |-> [ st EXCEPT !.alt_tokens = TRUE ],
                                 out |-> {} ]
    [] opt = "noalt-tokens" -> [ st |-> [ st EXCEPT !.alt_tokens = FALSE ],
                                 out |-> {} ]
    [] opt = "digraphs"     -> [ st |-> [ st EXCEPT !.graph = C_GRAPH_DI ],
                                 out |-> {} ]
    [] opt = "trigraphs"    ->
         LET st1 == [ st EXCEPT !.graph = C_GRAPH_TRI ]
         IN  [ st |-> st1, out |-> check_trigraphs_lang(st1) ]
    [] opt = "nographs"     -> [ st |-> [ st EXCEPT !.graph = C_GRAPH_NONE ],
                                 out |-> {} ]
    [] opt = "prompt"       -> [ st |-> [ st EXCEPT !.prompt = TRUE ],
                                 out |-> {} ]
    [] opt = "noprompt"     -> [ st |-> [ st EXCEPT !.prompt = FALSE ],
                                 out |-> {} ]
    [] opt = "semicolon"    -> [ st |-> [ st EXCEPT !.semicolon = TRUE ],
                                 out |-> {} ]
    [] opt = "nosemicolon"  -> [ st |-> [ st EXCEPT !.semicolon = FALSE ],
                                 out |-> {} ]
    [] OTHER ->
         IF opt # "options"
           THEN [ st |-> st, out |-> { "error" } ]
           ELSE [ st |-> st, out |-> { "listing" } ]

\* A variant that switches the language without looking at the graph mode.
set_option_lang_only(st, opt) ==
  IF opt = NoOpt
    THEN [ st |-> st, out |-> { "listing" } ]
    ELSE LET new_lang == c_lang_find(opt)
         IN  IF new_lang # LANG_NONE
               THEN [ st |-> c_lang_set(st, new_lang), out |-> {} ]
               ELSE set_option_names(st, opt)

\* set_option: the new option variables and what is printed.
set_option(st, opt) ==
  IF opt = NoOpt
    THEN [ st |-> st, out |-> { "listing" } ]
    ELSE LET new_lang == c_lang_find(opt)
         IN  IF new_lang # LANG_NONE
               THEN LET st1 == c_lang_set(st, new_lang)
                    IN  [ st  |-> st1,
                          out |-> IF st1.graph = C_GRAPH_TRI
                                    THEN check_trigraphs_lang(st1)
                                    ELSE {} ]
               ELSE set_option_names(st, opt)

\* The option names the commands of a session are drawn from.
SetMenu ==
  KnownSetOptions
    \cup { NoOpt, "options", "c99", "c++14", "c++17", "east-const", "bogus" }

SetOption(opt) ==
  /\ pc = "idle"
  /\ LET r == set_option(SetState, opt)
     IN  /\ opt_lang' = r.st.lang
         /\ opt_alt_tokens' = r.st.alt_tokens
         /\ opt_graph' = r.st.graph
         /\ prompt_enabled' = r.st.prompt
         /\ opt_semicolon' = r.st.semicolon
         /\ set_out' = r.out
  /\ set_opt' = opt
  /\ UNCHANGED << cliVars, kindVars, distVars, tdefVars, mainVars, genVars,
                  freeVars, typeVars, opt_east_const, astVars, printVars,
                  graphVars, pc >>

NextSet == \E opt \in SetMenu : SetOption(opt)

SpecSet == InitCommon /\ [][NextSet]_vars

SetOptionVars ==
  << opt_lang, opt_alt_tokens, opt_graph, prompt_enabled, opt_semicolon >>

\* What holds of a set command with option name set_opt'.
TrigraphWarningStep ==
  /\ "warning" \in set_out' <=>
       /\ set_opt' = "trigraphs" \/ c_lang_find(set_opt') # LANG_NONE
       /\ opt_graph' = C_GRAPH_TRI
       /\ opt_lang' >= LANG_CPP_17
  /\ c_lang_find(set_opt') # LANG_NONE => opt_graph' = opt_graph

\* C25: in any sequence of set commands, a command that selects trigraph
\* mode or a language prints the warning "trigraphs are no longer supported"
\* if and only if, after it, trigraph mode is on and the language is C++17 or
\* later; selecting a language leaves the graph mode unchanged; and no other
\* set command prints the warning.
C25_TrigraphWarning == [][TrigraphWarningStep]_vars

\* A language selected while trigraph mode is on.
C25_Witness ==
  /\ set_opt = "c++17"
  /\ opt_graph = C_GRAPH_TRI
  /\ "warning" \in set_out

C25_WitnessTrigraphs ==
  /\ set_opt = "trigraphs"
  /\ opt_lang = LANG_CPP_17
  /\ "warning" \in set_out

C25_WitnessQuiet ==
  /\ set_opt = "c++14"
  /\ opt_graph = C_GRAPH_TRI
  /\ "warning" \notin set_out

UnknownSetOption(opt) ==
  /\ opt # NoOpt
  /\ opt # "options"
  /\ opt \notin KnownSetOptions
  /\ c_lang_find(opt) = LANG_NONE

UnknownOptionStep ==
  /\ UnknownSetOption(set_opt') =>
       /\ "error" \in set_out'
       /\ "listing" \notin set_out'
       /\ SetOptionVars' = SetOptionVars
  /\ "listing" \in set_out' =>
       /\ set_opt' \in { NoOpt, "options" }
       /\ SetOptionVars' = SetOptionVars
  /\ "error" \in set_out' => UnknownSetOption(set_opt')

\* C26: set_option called with a name that is neither a language, a known
\* option nor `options` reports "unknown set option", changes none of the
\* option variables and does not print the listing; the listing is printed
\* only for a missing option name or for `options`, and then no option
\* variable changes.
C26_UnknownSetOption == [][UnknownOptionStep]_vars

C26_Witness ==
  /\ set_opt = "bogus"
  /\ set_out = { "error" }
  /\ opt_graph = C_GRAPH_DI
  /\ ~opt_semicolon

C26_WitnessListing ==
  /\ set_opt = "options"
  /\ set_out = { "listing" }
  /\ opt_alt_tokens

C26_WitnessMissing ==
  /\ set_opt = NoOpt
  /\ set_out = { "listing" }
  /\ ~prompt_enabled

(***************************************************************************)
(* free_later and free_now (util.c).  A pointer is a number; free_head is  *)
(* the linked list, its head first; freed lists every pointer passed to    *)
(* free(), in the order of the calls.  since holds the pointers registered *)
(* since the previous free_now, oldest first, and free_last the last call: *)
(* its name, its argument, what it returned and the pointers it freed.     *)
(***************************************************************************)
MaxPtrs == 3

Ptrs == 1..MaxPtrs

free_later(head, p) == [ head |-> << p >> \o head, ret |-> p ]

\* A variant that leaves the list as it is.
free_now_keep(head) == [ head |-> head, log |-> head ]

\* free_now: every node's pointer is freed, from the head on.
free_now(head) == [ head |-> << >>, log |-> head ]

Registered == { free_head[k] : k \in 1..Len(free_head) }
                 \cup { freed[k] : k \in 1..Len(freed) }

FreeLater(p) ==
  /\ pc = "idle"
  /\ p \notin Registered
  /\ LET r == free_later(free_head, p)
     IN  /\ free_head' = r.head
         /\ free_last' = [ op |-> "free_later", arg |-> p, ret |-> r.ret,
                           log |-> << >> ]
  /\ since' = Append(since, p)
  /\ UNCHANGED << cliVars, kindVars, distVars, tdefVars, setVars, mainVars,
                  genVars, freed, typeVars, optVars, astVars, printVars,
                  graphVars, pc >>

FreeNow ==
  /\ pc = "idle"
  /\ LET r == free_now(free_head)
     IN  /\ free_head' = r.head
         /\ freed' = freed \o r.log
         /\ free_last' = [ op |-> "free_now", arg |-> 0, ret |-> 0,
                           log |-> r.log ]
  /\ since' = << >>
  /\ UNCHANGED << cliVars, kindVars, distVars, tdefVars, setVars, mainVars,
                  genVars, typeVars, optVars, astVars, printVars, graphVars,
                  pc >>

\* cdecl_cleanup, run by exit().
Cleanup ==
  /\ pc = "idle"
  /\ LET r == free_now(free_head)
     IN  /\ free_head' = r.head
         /\ freed' = freed \o r.log
         /\ free_last' = [ op |-> "free_now", arg |-> 0, ret |-> 0,
                           log |-> r.log ]
  /\ since' = << >>
  /\ pc' = "exited"
  /\ UNCHANGED << cliVars, kindVars, distVars, tdefVars, setVars, mainVars,
                  genVars, typeVars, optVars, astVars, printVars, graphVars >>

NextFree ==
  \/ \E p \in Ptrs : FreeLater(p)
  \/ FreeNow
  \/ Cleanup

SpecFree == InitCommon /\ [][NextFree]_vars

RECURSIVE Reverse(_)
Reverse(s) == IF s = << >> THEN << >> ELSE Reverse(Tail(s)) \o << Head(s) >>

TimesFreed(log, p) == Cardinality({ k \in 1..Len(log) : log[k] = p })

FreeStep ==
  /\ free_last'.op = "free_later" => free_last'.ret = free_last'.arg
  /\ free_last'.op = "free_now" =>
       /\ free_last'.log = Reverse(since)
       /\ free_head' = << >>
       /\ \A p \in Ptrs :
            TimesFreed(freed', p) =
              TimesFreed(freed, p)
                + (IF \E k \in 1..Len(since) : since[k] = p THEN 1 ELSE 0)
  /\ \A p \in Ptrs : TimesFreed(freed', p) <= 1

\* C30: for every interleaving of free_later and free_now calls in which
\* each pointer is registered at most once, free_later returns its argument
\* and free_now frees every pointer registered since the previous free_now
\* exactly once, the most recently registered first, and leaves the list
\* empty, so that a repeated free_now, or the one of the cleanup at exit,
\* frees nothing again.
C30_FreeOnce == [][FreeStep]_vars

\* Two pointers freed by the second free_now of a session.
C30_Witness ==
  /\ free_last.op = "free_now"
  /\ free_last.log = << 3, 2 >>
  /\ freed = << 1, 3, 2 >>
  /\ free_head = << >>

\* The cleanup at exit after a free_now.
C30_WitnessCleanup ==
  /\ pc = "exited"
  /\ free_last.log = << >>
  /\ Len(freed) = 2

(***************************************************************************)
(* main, parse_files and parse_stdin (cdecl.c).  yyparse, fopen and        *)
(* readline are the environment: each call's outcome is an input.          *)
(* main_argv holds the arguments left after the options, main_i is the i   *)
(* of parse_files, main_ok the ok of main and of parse_files and stdin_ok  *)
(* the ok of parse_stdin.  stdin_lines holds the outcome of each line the  *)
(* running parse_stdin has read, touched the arguments parse_files has     *)
(* opened or read so far with what became of each, and main_status the     *)
(* exit status, "" while the program runs.                                 *)
(***************************************************************************)
MaxFiles == 3

MaxLines == 3

BufPtr == 1

is_command(str) == str \in { "cast", "declare", "explain" }

\* A variant that gives up on the first line that fails.
parse_stdin_line_all(ok, line_ok) == ok /\ line_ok

\* The body of the readline loop of parse_stdin: the new value of ok.
parse_stdin_line(ok, line_ok) == line_ok

\* A variant that goes on after a failure.
parse_files_continue_always(i, n, ok) == i < n

\* The condition of the loop of parse_files.
parse_files_continue(i, n, ok) == i < n /\ ok

MainNames == { "-", "a.cdecl", "b.cdecl", "explain" }

RECURSIVE NameLists(_)
NameLists(n) ==
  IF n = 0 THEN { << >> }
  ELSE { Append(s, a) : s \in NameLists(n - 1), a \in MainNames }

MainArgvs == UNION { NameLists(n) : n \in 0..MaxFiles }

\* main up to the call it chooses.
MainStart(me, args, tty) ==
  /\ pc = "idle"
  /\ main_me' = me
  /\ main_argv' = args
  /\ main_tty' = tty
  /\ main_i' = 0
  /\ main_ok' = TRUE
  /\ stdin_caller' = "main"
  /\ stdin_ok' = TRUE
  /\ stdin_lines' = << >>
  /\ touched' = << >>
  /\ main_status' = ""
  /\ pc' = IF Len(args) = 0 THEN "parse_stdin"
           ELSE IF is_command(me) \/ is_command(args[1])
                  THEN "parse_command_line"
                  ELSE "parse_files"
  /\ UNCHANGED << cliVars, kindVars, distVars, tdefVars, setVars, genVars,
                  freeVars, typeVars, optVars, astVars, printVars,
                  graphVars >>

\* parse_command_line: the command is built in a buffer that is freed
\* later, and parsed.
ParseCommandLine(parsed) ==
  /\ pc = "parse_command_line"
  /\ LET r == free_later(free_head, BufPtr)
     IN  /\ free_head' = r.head
         /\ free_last' = [ op |-> "free_later", arg |-> BufPtr,
                           ret |-> r.ret, log |-> << >> ]
  /\ since' = Append(since, BufPtr)
  /\ main_ok' = parsed
  /\ pc' = "exit"
  /\ UNCHANGED << cliVars, kindVars, distVars, tdefVars, setVars, genVars,
                  freed, main_me, main_argv, main_tty, main_i, stdin_caller,
                  stdin_ok, stdin_lines, touched, main_status, typeVars,
                  optVars, astVars, printVars, graphVars >>

\* The return of parse_stdin to its caller.
StdinReturn(ret) ==
  /\ main_ok' = ret
  /\ IF stdin_caller = "main"
       THEN /\ pc' = "exit"
            /\ UNCHANGED << main_i, touched >>
       ELSE /\ pc' = "parse_files"
            /\ main_i' = main_i + 1
            /\ touched' = Append(touched,
                                 [ arg |-> "-",
                                   what |-> IF ret THEN "ok" ELSE "fail" ])

\* parse_stdin, interactive: one line is read and parsed.
ReadLine(line_ok) ==
  /\ pc = "parse_stdin"
  /\ main_tty
  /\ Len(stdin_lines) < MaxLines
  /\ stdin_ok' = parse_stdin_line(stdin_ok, line_ok)
  /\ stdin_lines' = Append(stdin_lines, line_ok)
  /\ UNCHANGED << cliVars, kindVars, distVars, tdefVars, setVars, genVars,
                  freeVars, main_me, main_argv, main_tty, main_i, main_ok,
                  stdin_caller, touched, main_status, typeVars, optVars,
                  astVars, printVars, graphVars, pc >>

\* parse_stdin, interactive: readline returns NULL.
ReadEOF ==
  /\ pc = "parse_stdin"
  /\ main_tty
  /\ StdinReturn(stdin_ok)
  /\ UNCHANGED << cliVars, kindVars, distVars, tdefVars, setVars, genVars,
                  freeVars, main_me, main_argv, main_tty, stdin_caller,
                  stdin_ok, stdin_lines, main_status, typeVars, optVars,
                  astVars, printVars, graphVars >>

\* parse_stdin, not interactive: the whole input is parsed at once.
ParseStdinWhole(parsed) ==
  /\ pc = "parse_stdin"
  /\ ~main_tty
  /\ stdin_ok' = parsed
  /\ StdinReturn(parsed)
  /\ UNCHANGED << cliVars, kindVars, distVars, tdefVars, setVars, genVars,
                  freeVars, main_me, main_argv, main_tty, stdin_caller,
                  stdin_lines, main_status, typeVars, optVars, astVars,
                  printVars, graphVars >>

\* parse_files: the argument is "-".
ParseFilesStdin ==
  /\ pc = "parse_files"
  /\ parse_files_continue(main_i, Len(main_argv), main_ok)
  /\ main_argv[main_i + 1] = "-"
  /\ stdin_caller' = "files"
  /\ stdin_ok' = TRUE
  /\ stdin_lines' = << >>
  /\ pc' = "parse_stdin"
  /\ UNCHANGED << cliVars, kindVars, distVars, tdefVars, setVars, genVars,
                  freeVars, main_me, main_argv, main_tty, main_i, main_ok,
                  touched, main_status, typeVars, optVars, astVars,
                  printVars, graphVars >>

\* parse_files: the argument is a file, which is opened and parsed; what is
\* "missing" when it cannot be opened.
ParseFilesOpen(what) ==
  /\ pc = "parse_files"
  /\ parse_files_continue(main_i, Len(main_argv), main_ok)
  /\ main_argv[main_i + 1] # "-"
  /\ touched' = Append(touched, [ arg |-> main_argv[main_i + 1],
                                  what |-> what ])
  /\ IF what = "missing"
       THEN /\ main_status' = "EX_NOINPUT"
            /\ pc' = "exited"
            /\ UNCHANGED << main_i, main_ok >>
       ELSE /\ main_ok' = (what = "ok")
            /\ main_i' = main_i + 1
            /\ UNCHANGED << main_status, pc >>
  /\ UNCHANGED << cliVars, kindVars, distVars, tdefVars, setVars, genVars,
                  freeVars, main_me, main_argv, main_tty, stdin_caller,
                  stdin_ok, stdin_lines, typeVars, optVars, astVars,
                  printVars, graphVars >>

ParseFilesReturn ==
  /\ pc = "parse_files"
  /\ ~parse_files_continue(main_i, Len(main_argv), main_ok)
  /\ pc' = "exit"
  /\ UNCHANGED << auxVars, typeVars, optVars, astVars, printVars,
                  graphVars >>

\* exit( ok ? EX_OK : EX_DATAERR ), which runs cdecl_cleanup.
MainExit ==
  /\ pc = "exit"
  /\ main_status' = IF main_ok THEN "EX_OK" ELSE "EX_DATAERR"
  /\ LET r == free_now(free_head)
     IN  /\ free_head' = r.head
         /\ freed' = freed \o r.log
         /\ free_last' = [ op |-> "free_now", arg |-> 0, ret |-> 0,
                           log |-> r.log ]
  /\ since' = << >>
  /\ pc' = "exited"
  /\ UNCHANGED << cliVars, kindVars, distVars, tdefVars, setVars, genVars,
                  main_me, main_argv, main_tty, main_i, main_ok,
                  stdin_caller, stdin_ok, stdin_lines, touched, typeVars,
                  optVars, astVars, printVars, graphVars >>

NextMain ==
  \/ \E me \in { "cdecl", "explain" }, args \in MainArgvs, tty \in BOOLEAN :
       MainStart(me, args, tty)
  \/ \E parsed \in BOOLEAN : ParseCommandLine(parsed)
  \/ \E line_ok \in BOOLEAN : ReadLine(line_ok)
  \/ ReadEOF
  \/ \E parsed \in BOOLEAN : ParseStdinWhole(parsed)
  \/ ParseFilesStdin
  \/ \E what \in { "ok", "fail", "missing" } : ParseFilesOpen(what)
  \/ ParseFilesReturn
  \/ MainExit

SpecMain == InitCommon /\ [][NextMain]_vars

Last(s) == s[Len(s)]

\* Commands were read interactively, line by line, by the parse_stdin that
\* main called, and the program has ended.
InteractiveDone ==
  /\ pc = "exited"
  /\ main_argv = << >>
  /\ main_tty

\* C27: when commands are read interactively line by line, the result of
\* parse_stdin, and with it the exit status, is determined by the last line
\* read alone: success when the last line parsed successfully, whatever
\* happened on earlier lines, and success when no line was read.
C27_LastLineDecides ==
  InteractiveDone =>
    LET success == stdin_lines = << >> \/ Last(stdin_lines)
    IN  /\ stdin_ok = success
        /\ main_status = IF success THEN "EX_OK" ELSE "EX_DATAERR"

\* An earlier line that failed, and a last line that did not.
C27_Witness ==
  /\ InteractiveDone
  /\ stdin_lines = << TRUE, FALSE, TRUE >>
  /\ main_status = "EX_OK"

C27_WitnessNoLine ==
  /\ InteractiveDone
  /\ stdin_lines = << >>
  /\ main_status = "EX_OK"

C27_WitnessFailure ==
  /\ InteractiveDone
  /\ stdin_lines = << TRUE, FALSE >>
  /\ main_status = "EX_DATAERR"

InParseFiles ==
  /\ main_argv # << >>
  /\ ~is_command(main_me)
  /\ ~is_command(main_argv[1])

\* C28: parse_files parses its arguments strictly in command-line order and
\* stops at the first one whose parse fails: no later file is opened or
\* parsed after a failure, the result is true only if every file parsed
\* successfully, and a file that cannot be opened ends the process with
\* EX_NOINPUT before any later file is touched.
C28_FilesInOrder ==
  InParseFiles =>
    /\ Len(touched) <= Len(main_argv)
    /\ \A k \in 1..Len(touched) :
         /\ touched[k].arg = main_argv[k]
         /\ k < Len(touched) => touched[k].what = "ok"
    /\ (pc \in { "exit", "exited" } /\ main_status # "EX_NOINPUT") =>
         /\ main_ok <=> /\ Len(touched) = Len(main_argv)
                        /\ \A k \in 1..Len(touched) : touched[k].what = "ok"
         /\ touched # << >>
         /\ Last(touched).what # "missing"
    /\ (touched # << >> /\ Last(touched).what = "missing") <=>
         main_status = "EX_NOINPUT"
    /\ main_status = "EX_NOINPUT" => pc = "exited"
    /\ main_status = "EX_OK" => main_ok
    /\ main_status = "EX_DATAERR" => ~main_ok

\* A failure in the second of three files.
C28_Witness ==
  /\ InParseFiles
  /\ pc = "exited"
  /\ main_argv = << "a.cdecl", "b.cdecl", "a.cdecl" >>
  /\ touched = << [ arg |-> "a.cdecl", what |-> "ok" ],
                  [ arg |-> "b.cdecl", what |-> "fail" ] >>
  /\ main_status = "EX_DATAERR"

C28_WitnessMissing ==
  /\ InParseFiles
  /\ pc = "exited"
  /\ Len(main_argv) = 3
  /\ Len(touched) = 2
  /\ Last(touched).what = "missing"
  /\ main_status = "EX_NOINPUT"

C28_WitnessAll ==
  /\ InParseFiles
  /\ pc = "exited"
  /\ Len(main_argv) = 3
  /\ Len(touched) = 3
  /\ main_status = "EX_OK"

(***************************************************************************)
(* command_generator (autocomplete.c).  The source holds it twice: the one *)
(* of "autocomplete.c" steps through the table of commands by match_index, *)
(* the one of "gibberish.c" by match_command, a pointer taken for the      *)
(* number of the command it points to, 0 standing for NULL.  gen_src and   *)
(* gen_text are the one called and the text it was called with; gen_rets   *)
(* holds what the calls have returned since the last call with a state of  *)
(* 0, NoMatch standing for NULL, and gen_calls counts the calls.           *)
(***************************************************************************)
MaxCalls == 8

NoMatch == "<null>"

LANG_ANY == AllLangs

LANG_CPP_ANY == LANG_CPP_98 .. LANG_CPP_23

\* The table of commands: the languages a command is available in and those
\* it is auto-completable in, the empty set standing for LANG_NONE.
CDECL_COMMANDS ==
  << [ literal |-> "cast",    lang_ids |-> LANG_ANY,
       ac_lang_ids |-> LANG_ANY ],
     [ literal |-> "class",   lang_ids |-> LANG_CPP_ANY,
       ac_lang_ids |-> LANG_CPP_ANY ],
     [ literal |-> "const",   lang_ids |-> LANG_CPP_ANY,
       ac_lang_ids |-> LANG_CPP_ANY ],
     [ literal |-> "exit",    lang_ids |-> LANG_ANY,
       ac_lang_ids |-> {} ],
     [ literal |-> "explain", lang_ids |-> LANG_ANY,
       ac_lang_ids |-> LANG_ANY ],
     [ literal |-> "q",       lang_ids |-> LANG_ANY,
       ac_lang_ids |-> {} ] >>

opt_lang_is_any(lang, lang_ids) == lang \in lang_ids

\* cdecl_command_next: the command after the given one, the first one for
\* NULL, and NULL after the last.
cdecl_command_next(command) ==
  IF command < Len(CDECL_COMMANDS) THEN command + 1 ELSE 0

RECURSIVE SkipNotCompletable(_)
SkipNotCompletable(command) ==
  IF command # 0 /\ CDECL_COMMANDS[command].ac_lang_ids = {}
    THEN SkipNotCompletable(cdecl_command_next(command))
    ELSE command

\* A variant that returns every command.
ac_cdecl_command_next_all(command) == cdecl_command_next(command)

ac_cdecl_command_next(command) ==
  SkipNotCompletable(cdecl_command_next(command))

\* strncmp( s1, s2, n ) == 0
strncmp_eq(s1, s2, n) ==
  SubSeq(s1, 1, Min({ n, Len(s1) })) = SubSeq(s2, 1, Min({ n, Len(s2) }))

\* The while loop of command_generator of gibberish.c.
RECURSIVE MatchLoop(_, _, _, _)
MatchLoop(lang, text, tlen, match) ==
  IF match = 0 THEN [ match |-> 0, ret |-> NoMatch ]
  ELSE LET c    == CDECL_COMMANDS[match]
           next == ac_cdecl_command_next(match)
       IN  IF ~opt_lang_is_any(lang, c.lang_ids)
             THEN MatchLoop(lang, text, tlen, next)
           ELSE IF strncmp_eq(c.literal, text, tlen)
             THEN [ match |-> next, ret |-> c.literal ]
           ELSE MatchLoop(lang, text, tlen, next)

\* The for loop of command_generator of autocomplete.c; the entry after the
\* last command has a NULL literal.
RECURSIVE IndexLoop(_, _, _, _)
IndexLoop(lang, text, tlen, index) ==
  IF index >= Len(CDECL_COMMANDS) THEN [ index |-> index, ret |-> NoMatch ]
  ELSE LET c == CDECL_COMMANDS[index + 1]
       IN  IF ~opt_lang_is_any(lang, c.lang_ids)
             THEN IndexLoop(lang, text, tlen, index + 1)
           ELSE IF strncmp_eq(text, c.literal, tlen)
             THEN [ index |-> index + 1, ret |-> c.literal ]
           ELSE IndexLoop(lang, text, tlen, index + 1)

GenSources == { "autocomplete.c", "gibberish.c" }

GenTexts == { "", "c", "cl", "e", "ex", "q", "castx" }

\* command_generator( text, state ).
CommandGenerator(src, text, state) ==
  /\ pc = "idle"
  /\ gen_calls < MaxCalls
  /\ state # 0 => /\ gen_rets # << >>
                  /\ src = gen_src
                  /\ text = gen_text
  /\ gen_src' = src
  /\ gen_text' = text
  /\ text_len' = IF state = 0 THEN Len(text) ELSE text_len
  /\ IF src = "gibberish.c"
       THEN LET r == MatchLoop(opt_lang, text, text_len',
                               IF state = 0 THEN ac_cdecl_command_next(0)
                               ELSE match_command)
            IN  /\ match_command' = r.match
                /\ gen_rets' = IF state = 0 THEN << r.ret >>
                               ELSE Append(gen_rets, r.ret)
                /\ UNCHANGED match_index
       ELSE LET r == IndexLoop(opt_lang, text, text_len',
                               IF state = 0 THEN 0 ELSE match_index)
            IN  /\ match_index' = r.index
                /\ gen_rets' = IF state = 0 THEN << r.ret >>
                               ELSE Append(gen_rets, r.ret)
                /\ UNCHANGED match_command
  /\ gen_calls' = gen_calls + 1
  /\ UNCHANGED << cliVars, kindVars, distVars, tdefVars, setVars, mainVars,
                  freeVars, typeVars, optVars, astVars, printVars,
                  graphVars, pc >>

\* The language is set between completions.
GenSetLang(lang) ==
  /\ pc = "idle"
  /\ opt_lang' = lang
  /\ gen_rets' = << >>
  /\ gen_calls' = 0
  /\ UNCHANGED << cliVars, kindVars, distVars, tdefVars, setVars, mainVars,
                  freeVars, gen_src, gen_text, text_len, match_command,
                  match_index, typeVars, opt_alt_tokens, opt_east_const,
                  opt_graph, opt_semicolon, astVars, printVars, graphVars,
                  pc >>

NextGen ==
  \/ \E src \in GenSources, text \in GenTexts, state \in 0..1 :
       CommandGenerator(src, text, state)
  \/ \E lang \in { LANG_C_99, LANG_CPP_11 } : GenSetLang(lang)

SpecGen == InitCommon /\ [][NextGen]_vars

IsPrefix(text, str) ==
  /\ Len(text) <= Len(str)
  /\ SubSeq(str, 1, Len(text)) = text

CommandIndexes == { k \in 1..Len(CDECL_COMMANDS) : TRUE }

\* The literals of the commands of the set, in table order.
RECURSIVE LiteralsFrom(_, _)
LiteralsFrom(k, set) ==
  IF k > Len(CDECL_COMMANDS) THEN << >>
  ELSE (IF k \in set THEN << CDECL_COMMANDS[k].literal >> ELSE << >>)
         \o LiteralsFrom(k + 1, set)

\* The calls since the one with a state of 0 have returned the commands of
\* the set, each once and in table order, and then nothing but NULL.
ReturnedInOrder(set) ==
  LET expected == LiteralsFrom(1, set)
  IN  \A k \in 1..Len(gen_rets) :
        gen_rets[k] = IF k <= Len(expected) THEN expected[k] ELSE NoMatch

Available ==
  { k \in CommandIndexes :
      /\ opt_lang \in CDECL_COMMANDS[k].lang_ids
      /\ IsPrefix(gen_text, CDECL_COMMANDS[k].literal) }

C29_WitnessRestart ==
  /\ gen_src = "gibberish.c"
  /\ opt_lang = LANG_CPP_11
  /\ gen_text = "c"
  /\ gen_rets = << "cast", "class", "const", NoMatch >>
  /\ gen_calls = 6

C29_WitnessIndex ==
  /\ gen_src = "autocomplete.c"
  /\ opt_lang = LANG_C_99
  /\ gen_text = ""
  /\ gen_rets = << "cast", "exit", "explain", "q", NoMatch >>

=============================================================================
